---- MODULE Spec2Model ----
(***************************************************************************)
(* Equipment reservation backend: the reservation engine (conflict check,  *)
(* status assignment, update / cancel / restore / delete), the permission  *)
(* ledger it reads, and the equipment registry's status.                   *)
(*                                                                         *)
(* Time is a small integer line 0..MaxTime.  Request timestamps are taken  *)
(* to be written in one notation, so that the order JavaScript's Date      *)
(* gives them and the order of the TIMESTAMP columns agree.                *)
(***************************************************************************)
EXTENDS Integers, FiniteSets, Sequences, TLC

\* ---------------------------------------------------------------- bounds
MaxTime == 2       \* request and stored timestamps are 0..MaxTime
MaxRes == 2        \* the reservations SERIAL hands out ids 1..MaxRes
MaxNow == 1        \* the server clock runs over 0..MaxNow
NumEquipment == 1  \* seeded equipment rows, ids 1..NumEquipment
MaxCheckTime == 3  \* timestamps of the conflict-check specification
MaxUsers == 3      \* the users SERIAL hands out ids 1..MaxUsers

\* ------------------------------------------------------- request values
\* A field missing from req.body (undefined after destructuring).
Undefined == 0 - 1
\* purpose / status / permissionLevel missing from req.body.
NoValue == "<undefined>"

Times == 0..MaxTime
TimeInputs == Times \cup {Undefined}
PurposeInputs == {NoValue}
StatusInputs == {NoValue, "pending", "confirmed", "cancelled", "bogus"}

\* CHECK(status IN ('pending', 'confirmed', 'cancelled')) of reservations.
ReservationStatusCheck(status) == status \in {"pending", "confirmed", "cancelled"}

\* ------------------------------------------------------------ equipment
\* The seeded equipment rows; UnknownEquipment is an id no row has.
EquipmentIds == 1..NumEquipment
UnknownEquipment == NumEquipment + 1
EquipmentInputs == EquipmentIds \cup {UnknownEquipment, Undefined}
ReservationIds == 1..MaxRes

VARIABLES
    users,          \* users rows by id: [role, user_role]; a SERIAL id is
                    \* never handed out again, and the token signed for it
                    \* outlives the row (see deletedUsers)
    equipment,      \* equipment rows by id: [name, status, manager_id]
    permissions,    \* equipment_permissions table: set of rows
    reservations,   \* reservations table: set of rows
    nextId,         \* next value of the reservations id SERIAL
    now,            \* the server clock (new Date())
    last,           \* the response being sent, NoResponse once it is out
    proc,           \* in-flight request handlers (between two awaits)
    deletedUsers,      \* ids whose users row has been deleted
    deletedEquipment,  \* ids whose equipment row has been deleted
    logs,           \* equipment_logs table: set of rows
    nextLogId,      \* next value of the equipment_logs id SERIAL
    dbInitialized,  \* the instance's flag of the initialisation middleware
    initDatabaseRuns   \* calls of initDatabase the instance has completed

\* The tables and the flag the reservation and permission routes never write.
others == <<deletedUsers, deletedEquipment, logs, nextLogId, dbInitialized,
            initDatabaseRuns>>

vars == <<users, equipment, permissions, reservations, nextId, now, last, proc,
          others>>

Procs == {1, 2}
Idle == [pc |-> "idle"]

\* ---------------------------------------------------------------- users
\* The two accounts autoSeed creates: admin and testuser.  The admin row is
\* taken after initDatabase's role migration has set its user_role.
AdminId == 1
TestUserId == 2
SeedUsers ==
    (AdminId :> [role |-> "admin", user_role |-> "admin"]) @@
    (TestUserId :> [role |-> "user", user_role |-> "staff"])

\* The equipment rows autoSeed creates, after initDatabase's migration has
\* made the admin their default manager.
SeedName(e) == IF e = 1 THEN "UV aligner (SUSS)" ELSE "UV aligner (MIDAS)"
SeedEquipment ==
    [e \in EquipmentIds |->
       [name |-> SeedName(e), status |-> "available", manager_id |-> AdminId]]

\* The legacy binary role written at registration.
legacyRole(userRole) ==
    IF userRole \in {"equipment_manager", "admin"} THEN "admin" ELSE "user"

\* req.user: the payload signed into the token at login.
ReqUser(u) == [id |-> u, role |-> users[u].role, user_role |-> users[u].user_role]

\* The isAdmin route middleware ("admin only" routes).
isAdmin(u) == ReqUser(u).user_role = "admin"

\* What a handler answers: the route, the HTTP status, the requester and the
\* reservation the request named (for a create, the id it returns).
Response(op, code, u, id) == [op |-> op, code |-> code, user |-> u, id |-> id]
NoResponse == Response("none", 0, 0, 0)

\* -------------------------------------------------------------- queries
\* Equipment.findById: whether the SELECT returns a row.
EquipmentExists(id) == id \in DOMAIN equipment /\ id \notin deletedEquipment

\* Whether the users table has a row with that id.
UserExists(id) == id \in DOMAIN users /\ id \notin deletedUsers

\* Reservation.findById: the row with that id.  The JOINs on users and
\* equipment always match: both are NOT NULL foreign keys.
ReservationExists(id) == \E r \in reservations : r.id = id
ReservationFindById(id) == CHOOSE r \in reservations : r.id = id

\* Faulty variants of the conflict query.  The first lets a reservation
\* that ends where the candidate starts conflict, the second counts only
\* confirmed reservations, the third counts cancelled ones too.
checkConflict_Touching(rows, equipmentId, startTime, endTime, excludeReservationId) ==
    \E r \in rows :
        /\ r.equipment_id = equipmentId
        /\ r.status # "cancelled"
        /\ \/ (r.start_time <= startTime /\ r.end_time >= startTime)
           \/ (r.start_time < endTime /\ r.end_time >= endTime)
           \/ (r.start_time >= startTime /\ r.end_time <= endTime)
        /\ (excludeReservationId # Undefined => r.id # excludeReservationId)

checkConflict_ConfirmedOnly(rows, equipmentId, startTime, endTime, excludeReservationId) ==
    \E r \in rows :
        /\ r.equipment_id = equipmentId
        /\ r.status = "confirmed"
        /\ \/ (r.start_time <= startTime /\ r.end_time > startTime)
           \/ (r.start_time < endTime /\ r.end_time >= endTime)
           \/ (r.start_time >= startTime /\ r.end_time <= endTime)
        /\ (excludeReservationId # Undefined => r.id # excludeReservationId)

checkConflict_AnyStatus(rows, equipmentId, startTime, endTime, excludeReservationId) ==
    \E r \in rows :
        /\ r.equipment_id = equipmentId
        /\ \/ (r.start_time <= startTime /\ r.end_time > startTime)
           \/ (r.start_time < endTime /\ r.end_time >= endTime)
           \/ (r.start_time >= startTime /\ r.end_time <= endTime)
        /\ (excludeReservationId # Undefined => r.id # excludeReservationId)

\* Reservation.checkConflict over the table rows: the WHERE of its SELECT.
\* excludeReservationId = Undefined is the call without the fourth argument.
checkConflict(rows, equipmentId, startTime, endTime, excludeReservationId) ==
    \E r \in rows :
        /\ r.equipment_id = equipmentId
        /\ r.status # "cancelled"
        /\ \/ (r.start_time <= startTime /\ r.end_time > startTime)
           \/ (r.start_time < endTime /\ r.end_time >= endTime)
           \/ (r.start_time >= startTime /\ r.end_time <= endTime)
        /\ (excludeReservationId # Undefined => r.id # excludeReservationId)

\* Permission.hasPermission: the grant rows of the pair (at most one).
hasPermission(equipmentId, userId) ==
    {g \in permissions : g.equipment_id = equipmentId /\ g.user_id = userId}

\* Faulty variant of the status policy: the legacy flag decides.
initialStatus_LegacyRole(u, equipmentId) ==
    IF ReqUser(u).role = "admin" THEN "confirmed"
    ELSE IF \E g \in hasPermission(equipmentId, u) :
              g.permission_level = "autonomous" \/ g.permission_level = "manager"
      THEN "confirmed"
    ELSE "pending"

\* The initial status the create handler decides on.
initialStatus(u, equipmentId) ==
    IF ReqUser(u).user_role = "admin" THEN "confirmed"
    ELSE IF \E g \in hasPermission(equipmentId, u) :
                g.permission_level = "autonomous" \/ g.permission_level = "manager"
         THEN "confirmed"
         ELSE "pending"

\* Reservation.create: INSERT ... RETURNING id.
ReservationCreate(rows, id, equipmentId, userId, startTime, endTime, purpose, status) ==
    rows \cup {[id |-> id, equipment_id |-> equipmentId, user_id |-> userId,
                start_time |-> startTime, end_time |-> endTime,
                purpose |-> purpose, status |-> status]}

\* Reservation.update: UPDATE ... SET start_time, end_time, purpose, status.
ReservationUpdate(rows, id, startTime, endTime, purpose, status) ==
    {IF r.id = id
       THEN [r EXCEPT !.start_time = startTime, !.end_time = endTime,
                      !.purpose = purpose, !.status = status]
       ELSE r : r \in rows}

\* Reservation.cancel: UPDATE ... SET status = 'cancelled'.
ReservationCancel(rows, id) ==
    {IF r.id = id THEN [r EXCEPT !.status = "cancelled"] ELSE r : r \in rows}

\* Reservation.delete.
ReservationDelete(rows, id) == {r \in rows : r.id # id}

\* HTTP status of each way a handler answers.
ErrorCode(error) ==
    CASE error = "" -> 200
      [] error \in {"missing", "past", "end_not_after_start", "not_available",
                    "not_cancelled", "invalid_status"} -> 400
      [] error = "denied" -> 403
      [] error \in {"equipment_not_found", "not_found"} -> 404
      [] error = "conflict" -> 409
      [] OTHER -> 500

\* ----------------------------------------------------------------- Init
Init ==
    /\ users = SeedUsers
    /\ equipment = SeedEquipment
    /\ permissions = {}
    /\ reservations = {}
    /\ nextId = 1
    /\ now = 0
    /\ last = NoResponse
    /\ proc = [p \in Procs |-> Idle]
    /\ deletedUsers = {}
    /\ deletedEquipment = {}
    /\ logs = {}
    /\ nextLogId = 1
    /\ dbInitialized = TRUE
    /\ initDatabaseRuns = 1

\* Requests are served one at a time: the next handler starts when no handler
\* is in flight and the previous response has been sent.
NoneInFlight == last = NoResponse /\ \A p \in Procs : proc[p] = Idle

\* res.json(...): the response leaves the server.
ResponseSent ==
    /\ last # NoResponse
    /\ last' = NoResponse
    /\ UNCHANGED <<users, equipment, permissions, reservations, nextId, now, proc, others>>

\* The clock advances.
Tick ==
    /\ now < MaxNow
    /\ now' = now + 1
    /\ UNCHANGED <<users, equipment, permissions, reservations, nextId, last, proc, others>>

\* ------------------------------------------ POST /reservations (create)
\* The rejection the handler answers with, "" when the request is admitted.
\* Body validation and the equipment lookup, before the conflict query.
\* Faulty variant of the entry checks: the start is not compared with the clock.
CreateEntryError_NoPastCheck(equipment_id, start_time, end_time) ==
    IF equipment_id = Undefined \/ start_time = Undefined \/ end_time = Undefined
      THEN "missing"
    ELSE IF end_time <= start_time THEN "end_not_after_start"
    ELSE IF ~EquipmentExists(equipment_id) THEN "equipment_not_found"
    ELSE IF equipment[equipment_id].status # "available" THEN "not_available"
    ELSE ""

CreateEntryError(equipment_id, start_time, end_time) ==
    IF equipment_id = Undefined \/ start_time = Undefined \/ end_time = Undefined
      THEN "missing"
    ELSE IF start_time < now THEN "past"
    ELSE IF end_time <= start_time THEN "end_not_after_start"
    ELSE IF ~EquipmentExists(equipment_id) THEN "equipment_not_found"
    ELSE IF equipment[equipment_id].status # "available" THEN "not_available"
    ELSE ""

\* Faulty variant of the rejections: the conflict query comes first.
CreateError_ConflictFirst(equipment_id, start_time, end_time) ==
    IF equipment_id = Undefined \/ start_time = Undefined \/ end_time = Undefined
      THEN "missing"
    ELSE IF checkConflict(reservations, equipment_id, start_time, end_time, Undefined)
      THEN "conflict"
    ELSE CreateEntryError(equipment_id, start_time, end_time)

CreateError(equipment_id, start_time, end_time) ==
    IF CreateEntryError(equipment_id, start_time, end_time) # ""
      THEN CreateEntryError(equipment_id, start_time, end_time)
    ELSE IF checkConflict(reservations, equipment_id, start_time, end_time, Undefined)
      THEN "conflict"
    ELSE ""

\* The foreign keys of a reservations row: the INSERT fails unless the
\* equipment and the user rows exist.
ReservationInsertViolation(equipmentId, userId) ==
    ~EquipmentExists(equipmentId) \/ ~UserExists(userId)

\* Faulty variant of the create handler: the row is inserted before the
\* conflict query, and a conflict leaves it behind.
CreateReq_InsertFirst(u, equipment_id, start_time, end_time, purpose) ==
    LET error == CreateError(equipment_id, start_time, end_time) IN
    /\ NoneInFlight
    /\ IF CreateEntryError(equipment_id, start_time, end_time) # ""
         THEN /\ last' = Response("create", ErrorCode(error), u, 0)
              /\ UNCHANGED <<reservations, nextId>>
         ELSE /\ nextId <= MaxRes
              /\ reservations' =
                   ReservationCreate(reservations, nextId, equipment_id, u, start_time,
                                     end_time, IF purpose = NoValue THEN "" ELSE purpose,
                                     initialStatus(u, equipment_id))
              /\ nextId' = nextId + 1
              /\ last' = IF error # "" THEN Response("create", ErrorCode(error), u, 0)
                         ELSE Response("create", 201, u, nextId)
    /\ UNCHANGED <<users, equipment, permissions, now, proc, others>>

CreateReq(u, equipment_id, start_time, end_time, purpose) ==
    LET error == IF CreateError(equipment_id, start_time, end_time) # ""
                   THEN CreateError(equipment_id, start_time, end_time)
                 ELSE IF ReservationInsertViolation(equipment_id, u)
                   THEN "foreign_key_violation"
                 ELSE "" IN
    /\ NoneInFlight
    /\ IF error # ""
         THEN /\ last' = Response("create", ErrorCode(error), u, 0)
              /\ UNCHANGED <<reservations, nextId>>
         ELSE /\ nextId <= MaxRes
              /\ reservations' =
                   ReservationCreate(reservations, nextId, equipment_id, u, start_time,
                                     end_time, IF purpose = NoValue THEN "" ELSE purpose,
                                     initialStatus(u, equipment_id))
              /\ nextId' = nextId + 1
              /\ last' = Response("create", 201, u, nextId)
    /\ UNCHANGED <<users, equipment, permissions, now, proc, others>>

\* --------------------------------------- PUT /reservations/:id (update)
\* Owner-or-admin check of update and cancel: the legacy role decides.
AccessDenied(u, reservation) ==
    reservation.user_id # ReqUser(u).id /\ ReqUser(u).role # "admin"

\* The row the handler writes: request fields, else the row's own.
UpdatedFields(reservation, start_time, end_time, purpose, status) ==
    [start_time |-> IF start_time # Undefined THEN start_time ELSE reservation.start_time,
     end_time   |-> IF end_time # Undefined THEN end_time ELSE reservation.end_time,
     purpose    |-> IF purpose # NoValue THEN purpose ELSE reservation.purpose,
     status     |-> IF status # NoValue THEN status ELSE reservation.status]

UpdateError(u, id, start_time, end_time, status) ==
    IF ~ReservationExists(id) THEN "not_found"
    ELSE LET reservation == ReservationFindById(id) IN
      IF AccessDenied(u, reservation) THEN "denied"
      ELSE IF start_time # Undefined /\ end_time # Undefined /\ end_time <= start_time
        THEN "end_not_after_start"
      ELSE IF /\ start_time # Undefined /\ end_time # Undefined
              /\ checkConflict(reservations, reservation.equipment_id, start_time,
                               end_time, id)
        THEN "conflict"
      ELSE IF ~ReservationStatusCheck(
                 UpdatedFields(reservation, start_time, end_time, NoValue, status).status)
        THEN "check_violation"
      ELSE ""

UpdateReq(u, id, start_time, end_time, purpose, status) ==
    LET error == UpdateError(u, id, start_time, end_time, status) IN
    /\ NoneInFlight
    /\ last' = Response("update", ErrorCode(error), u, id)
    /\ IF error # ""
         THEN UNCHANGED reservations
         ELSE LET f == UpdatedFields(ReservationFindById(id), start_time, end_time,
                                     purpose, status)
              IN reservations' = ReservationUpdate(reservations, id, f.start_time,
                                                   f.end_time, f.purpose, f.status)
    /\ UNCHANGED <<users, equipment, permissions, nextId, now, proc, others>>

\* ------------------------------------ PATCH /reservations/:id/cancel
CancelError(u, id) ==
    IF ~ReservationExists(id) THEN "not_found"
    ELSE IF AccessDenied(u, ReservationFindById(id)) THEN "denied"
    ELSE ""

CancelReq(u, id) ==
    LET error == CancelError(u, id) IN
    /\ NoneInFlight
    /\ last' = Response("cancel", ErrorCode(error), u, id)
    /\ reservations' = IF error # "" THEN reservations
                       ELSE ReservationCancel(reservations, id)
    /\ UNCHANGED <<users, equipment, permissions, nextId, now, proc, others>>

\* ----------------------------------- PATCH /reservations/:id/restore
\* Faulty variant of the restore checks: no conflict query.
RestoreError_NoConflictQuery(u, id) ==
    IF ~isAdmin(u) THEN "denied"
    ELSE IF ~ReservationExists(id) THEN "not_found"
    ELSE IF ReservationFindById(id).status # "cancelled" THEN "not_cancelled"
    ELSE ""

RestoreError(u, id) ==
    IF ~isAdmin(u) THEN "denied"
    ELSE IF ~ReservationExists(id) THEN "not_found"
    ELSE LET reservation == ReservationFindById(id) IN
      IF reservation.status # "cancelled" THEN "not_cancelled"
      ELSE IF checkConflict(reservations, reservation.equipment_id,
                            reservation.start_time, reservation.end_time, id)
        THEN "conflict"
      ELSE ""

RestoreReq(u, id) ==
    LET error == RestoreError(u, id) IN
    /\ NoneInFlight
    /\ last' = Response("restore", ErrorCode(error), u, id)
    /\ IF error # ""
         THEN UNCHANGED reservations
         ELSE LET reservation == ReservationFindById(id)
              IN reservations' =
                   ReservationUpdate(reservations, id, reservation.start_time,
                                     reservation.end_time, reservation.purpose,
                                     "confirmed")
    /\ UNCHANGED <<users, equipment, permissions, nextId, now, proc, others>>

\* ------------------------------------------- DELETE /reservations/:id
DeleteError(u, id) ==
    IF ~isAdmin(u) THEN "denied"
    ELSE IF ~ReservationExists(id) THEN "not_found"
    ELSE ""

DeleteReq(u, id) ==
    LET error == DeleteError(u, id) IN
    /\ NoneInFlight
    /\ last' = Response("delete", ErrorCode(error), u, id)
    /\ reservations' = IF error # "" THEN reservations
                       ELSE ReservationDelete(reservations, id)
    /\ UNCHANGED <<users, equipment, permissions, nextId, now, proc, others>>

\* ------------------------------------- handlers, one query per step
\* Each await of a handler is a point where another handler's queries may
\* run.  proc[p] holds the handler's position and its local variables;
\* a request takes the lowest free slot.
SlotFree(p) ==
    /\ last = NoResponse
    /\ proc[p] = Idle
    /\ \A q \in Procs : q < p => proc[q] # Idle

At(p, pc) == last = NoResponse /\ proc[p] # Idle /\ proc[p].pc = pc

Goto(p, pc, locals) == proc' = [proc EXCEPT ![p] = [pc |-> pc] @@ locals]

Done(p, op, code, u, id) ==
    /\ last' = Response(op, code, u, id)
    /\ proc' = [proc EXCEPT ![p] = Idle]

\* POST /reservations up to the result of Equipment.findById.
CreateBegin(p, u, equipment_id, start_time, end_time) ==
    LET error == CreateEntryError(equipment_id, start_time, end_time) IN
    /\ SlotFree(p)
    /\ IF error # ""
         THEN /\ last' = Response("create", ErrorCode(error), u, 0)
              /\ UNCHANGED proc
         ELSE /\ Goto(p, "create_check",
                      [user |-> u, equipment_id |-> equipment_id,
                       start_time |-> start_time, end_time |-> end_time,
                       initialStatus |-> "pending"])
              /\ UNCHANGED last
    /\ UNCHANGED <<users, equipment, permissions, reservations, nextId, now, others>>

\* Reservation.checkConflict answers; an admin needs no permission lookup.
CreateCheck(p) ==
    LET my == proc[p] IN
    /\ At(p, "create_check")
    /\ IF checkConflict(reservations, my.equipment_id, my.start_time, my.end_time,
                        Undefined)
         THEN Done(p, "create", 409, my.user, 0)
         ELSE /\ IF ReqUser(my.user).user_role = "admin"
                   THEN proc' = [proc EXCEPT ![p].pc = "create_insert",
                                             ![p].initialStatus = "confirmed"]
                   ELSE proc' = [proc EXCEPT ![p].pc = "create_permission"]
              /\ UNCHANGED last
    /\ UNCHANGED <<users, equipment, permissions, reservations, nextId, now, others>>

\* Permission.hasPermission answers.
CreatePermission(p) ==
    LET my == proc[p] IN
    /\ At(p, "create_permission")
    /\ proc' = [proc EXCEPT
                  ![p].pc = "create_insert",
                  ![p].initialStatus =
                     IF \E g \in hasPermission(my.equipment_id, ReqUser(my.user).id) :
                            \/ g.permission_level = "autonomous"
                            \/ g.permission_level = "manager"
                       THEN "confirmed" ELSE "pending"]
    /\ UNCHANGED <<users, equipment, permissions, reservations, nextId, now, last, others>>

\* Reservation.create inserts the row.
CreateInsert(p) ==
    LET my == proc[p] IN
    /\ At(p, "create_insert")
    /\ IF ReservationInsertViolation(my.equipment_id, my.user)
         THEN /\ Done(p, "create", 500, my.user, 0)
              /\ UNCHANGED <<reservations, nextId>>
         ELSE /\ nextId <= MaxRes
              /\ reservations' =
                   ReservationCreate(reservations, nextId, my.equipment_id, my.user,
                                     my.start_time, my.end_time, "", my.initialStatus)
              /\ nextId' = nextId + 1
              /\ Done(p, "create", 201, my.user, nextId)
    /\ UNCHANGED <<users, equipment, permissions, now, others>>

\* PUT /reservations/:id up to the result of Reservation.findById.
UpdateBegin(p, u, id, start_time, end_time, status) ==
    LET error ==
          IF ~ReservationExists(id) THEN "not_found"
          ELSE IF AccessDenied(u, ReservationFindById(id)) THEN "denied"
          ELSE IF start_time # Undefined /\ end_time # Undefined
                  /\ end_time <= start_time
            THEN "end_not_after_start"
          ELSE ""
    IN
    /\ SlotFree(p)
    /\ IF error # ""
         THEN /\ last' = Response("update", ErrorCode(error), u, id)
              /\ UNCHANGED proc
         ELSE /\ Goto(p, IF start_time # Undefined /\ end_time # Undefined
                           THEN "update_check" ELSE "update_write",
                      [user |-> u, id |-> id, reservation |-> ReservationFindById(id),
                       start_time |-> start_time, end_time |-> end_time,
                       status |-> status])
              /\ UNCHANGED last
    /\ UNCHANGED <<users, equipment, permissions, reservations, nextId, now, others>>

UpdateCheck(p) ==
    LET my == proc[p] IN
    /\ At(p, "update_check")
    /\ IF checkConflict(reservations, my.reservation.equipment_id, my.start_time,
                        my.end_time, my.id)
         THEN Done(p, "update", 409, my.user, my.id)
         ELSE /\ proc' = [proc EXCEPT ![p].pc = "update_write"]
              /\ UNCHANGED last
    /\ UNCHANGED <<users, equipment, permissions, reservations, nextId, now, others>>

\* Reservation.update writes the four columns, the unchanged ones from the
\* row as the handler read it.
UpdateWrite(p) ==
    LET my == proc[p]
        f == UpdatedFields(my.reservation, my.start_time, my.end_time, NoValue,
                           my.status)
    IN
    /\ At(p, "update_write")
    /\ IF ReservationStatusCheck(f.status)
         THEN /\ reservations' = ReservationUpdate(reservations, my.id, f.start_time,
                                                   f.end_time, f.purpose, f.status)
              /\ Done(p, "update", 200, my.user, my.id)
         ELSE /\ UNCHANGED reservations
              /\ Done(p, "update", 500, my.user, my.id)
    /\ UNCHANGED <<users, equipment, permissions, nextId, now, others>>

\* PATCH /reservations/:id/cancel up to the result of Reservation.findById.
CancelBegin(p, u, id) ==
    LET error == CancelError(u, id) IN
    /\ SlotFree(p)
    /\ IF error # ""
         THEN /\ last' = Response("cancel", ErrorCode(error), u, id)
              /\ UNCHANGED proc
         ELSE /\ Goto(p, "cancel_write", [user |-> u, id |-> id])
              /\ UNCHANGED last
    /\ UNCHANGED <<users, equipment, permissions, reservations, nextId, now, others>>

CancelWrite(p) ==
    LET my == proc[p] IN
    /\ At(p, "cancel_write")
    /\ reservations' = ReservationCancel(reservations, my.id)
    /\ Done(p, "cancel", 200, my.user, my.id)
    /\ UNCHANGED <<users, equipment, permissions, nextId, now, others>>

\* PATCH /reservations/:id/restore up to the result of Reservation.findById.
RestoreBegin(p, u, id) ==
    LET error ==
          IF ~isAdmin(u) THEN "denied"
          ELSE IF ~ReservationExists(id) THEN "not_found"
          ELSE IF ReservationFindById(id).status # "cancelled" THEN "not_cancelled"
          ELSE ""
    IN
    /\ SlotFree(p)
    /\ IF error # ""
         THEN /\ last' = Response("restore", ErrorCode(error), u, id)
              /\ UNCHANGED proc
         ELSE /\ Goto(p, "restore_check",
                      [user |-> u, id |-> id, reservation |-> ReservationFindById(id)])
              /\ UNCHANGED last
    /\ UNCHANGED <<users, equipment, permissions, reservations, nextId, now, others>>

RestoreCheck(p) ==
    LET my == proc[p] IN
    /\ At(p, "restore_check")
    /\ IF checkConflict(reservations, my.reservation.equipment_id,
                        my.reservation.start_time, my.reservation.end_time, my.id)
         THEN Done(p, "restore", 409, my.user, my.id)
         ELSE /\ proc' = [proc EXCEPT ![p].pc = "restore_write"]
              /\ UNCHANGED last
    /\ UNCHANGED <<users, equipment, permissions, reservations, nextId, now, others>>

RestoreWrite(p) ==
    LET my == proc[p] IN
    /\ At(p, "restore_write")
    /\ reservations' = ReservationUpdate(reservations, my.id,
                                         my.reservation.start_time,
                                         my.reservation.end_time,
                                         my.reservation.purpose, "confirmed")
    /\ Done(p, "restore", 200, my.user, my.id)
    /\ UNCHANGED <<users, equipment, permissions, nextId, now, others>>

\* ------------------------------------- PATCH /equipment/:id/status
EquipmentStatusInputs == {NoValue, "available", "maintenance", "bogus"}

EquipmentStatusError(u, id, status) ==
    IF ~isAdmin(u) THEN "denied"
    ELSE IF status = NoValue \/ status \notin {"available", "maintenance"}
      THEN "invalid_status"
    ELSE IF ~EquipmentExists(id) THEN "equipment_not_found"
    ELSE ""

\* Equipment.updateStatus: UPDATE ... WHERE id.
EquipmentUpdateStatus(rows, id, status) ==
    [e \in DOMAIN rows |-> IF e = id THEN [rows[e] EXCEPT !.status = status]
                           ELSE rows[e]]

\* The handler up to the result of Equipment.findById.
StatusBegin(p, u, id, status) ==
    LET error == EquipmentStatusError(u, id, status) IN
    /\ SlotFree(p)
    /\ IF error # ""
         THEN /\ last' = Response("status", ErrorCode(error), u, id)
              /\ UNCHANGED proc
         ELSE /\ Goto(p, "status_write", [user |-> u, id |-> id, status |-> status])
              /\ UNCHANGED last
    /\ UNCHANGED <<users, equipment, permissions, reservations, nextId, now, others>>

StatusWrite(p) ==
    LET my == proc[p] IN
    /\ At(p, "status_write")
    /\ equipment' = EquipmentUpdateStatus(equipment, my.id, my.status)
    /\ Done(p, "status", 200, my.user, my.id)
    /\ UNCHANGED <<users, permissions, reservations, nextId, now, others>>

\* ------------------------------------------------ permission grants
\* Faulty variant of Permission.canManageEquipment: a grant of any level.
canManageEquipment_AnyLevel(equipmentId, userId) ==
    \E g \in permissions : g.equipment_id = equipmentId /\ g.user_id = userId

\* Permission.canManageEquipment: a manager-level grant for the pair.
canManageEquipment(equipmentId, userId) ==
    \E g \in permissions :
        /\ g.equipment_id = equipmentId /\ g.user_id = userId
        /\ g.permission_level = "manager"

\* Faulty variant of Permission.grant: ON CONFLICT DO NOTHING, the pair's
\* existing row is kept.
PermissionGrant_DoNothing(rows, equipmentId, userId, grantedBy, permissionLevel) ==
    IF \E g \in rows : g.equipment_id = equipmentId /\ g.user_id = userId
      THEN rows
      ELSE rows \cup {[equipment_id |-> equipmentId, user_id |-> userId,
                       granted_by |-> grantedBy, permission_level |-> permissionLevel]}

\* Permission.grant: insert, or overwrite level and granter of the pair's row.
PermissionGrant(rows, equipmentId, userId, grantedBy, permissionLevel) ==
    {g \in rows : ~(g.equipment_id = equipmentId /\ g.user_id = userId)}
        \cup {[equipment_id |-> equipmentId, user_id |-> userId,
                granted_by |-> grantedBy, permission_level |-> permissionLevel]}

\* Faulty variant of Permission.revoke: every grant of the equipment goes.
PermissionRevoke_WholeEquipment(rows, equipmentId, userId) ==
    {g \in rows : g.equipment_id # equipmentId}

PermissionRevoke(rows, equipmentId, userId) ==
    {g \in rows : ~(g.equipment_id = equipmentId /\ g.user_id = userId)}

\* Faulty variant of the route guard: any grant on the equipment lets its
\* holder through.
canManageEquipmentMiddleware_AnyGrant(u, equipmentId) ==
    \/ ReqUser(u).user_role = "admin"
    \/ hasPermission(equipmentId, ReqUser(u).id) # {}

\* The route guard of the permission routes.
canManageEquipmentMiddleware(u, equipmentId) ==
    \/ ReqUser(u).user_role = "admin"
    \/ canManageEquipment(equipmentId, ReqUser(u).id)
    \/ /\ ReqUser(u).user_role = "equipment_manager"
       /\ EquipmentExists(equipmentId)
       /\ equipment[equipmentId].manager_id = ReqUser(u).id

\* The answer of a permission route, with the request it answers.
PermissionResponse(op, code, u, equipmentId, userId, permissionLevel) ==
    [op |-> op, code |-> code, user |-> u, id |-> userId,
     equipment_id |-> equipmentId, permission_level |-> permissionLevel]

\* Faulty variant of the grant checks: the level is not looked at.
GrantError_AnyLevel(u, equipmentId, userId, permissionLevel) ==
    IF ~canManageEquipmentMiddleware(u, equipmentId) THEN "denied"
    ELSE IF userId = Undefined THEN "missing"
    ELSE IF ~EquipmentExists(equipmentId) \/ ~UserExists(userId) \/ ~UserExists(u)
      THEN "foreign_key_violation"
    ELSE ""

GrantError(u, equipmentId, userId, permissionLevel) ==
    IF ~canManageEquipmentMiddleware(u, equipmentId) THEN "denied"
    ELSE IF userId = Undefined THEN "missing"
    ELSE IF permissionLevel = "manager" /\ ReqUser(u).user_role # "admin" THEN "denied"
    ELSE IF ~EquipmentExists(equipmentId) \/ ~UserExists(userId) \/ ~UserExists(u)
      THEN "foreign_key_violation"
    ELSE ""

GrantReq(u, equipmentId, userId, permissionLevel) ==
    LET error == GrantError(u, equipmentId, userId, permissionLevel)
        level == IF permissionLevel = NoValue THEN "normal" ELSE permissionLevel
    IN
    /\ NoneInFlight
    /\ permissions' = IF error = ""
                        THEN PermissionGrant(permissions, equipmentId, userId,
                                             ReqUser(u).id, level)
                        ELSE permissions
    /\ last' = PermissionResponse("grant", ErrorCode(error), u, equipmentId, userId,
                                  permissionLevel)
    /\ UNCHANGED <<users, equipment, reservations, nextId, now, proc, others>>

RevokeReq(u, equipmentId, userId) ==
    LET error == IF canManageEquipmentMiddleware(u, equipmentId) THEN "" ELSE "denied" IN
    /\ NoneInFlight
    /\ permissions' = IF error = ""
                        THEN PermissionRevoke(permissions, equipmentId, userId)
                        ELSE permissions
    /\ last' = PermissionResponse("revoke", ErrorCode(error), u, equipmentId, userId,
                                  NoValue)
    /\ UNCHANGED <<users, equipment, reservations, nextId, now, proc, others>>

\* The grant handler in two steps: the route guard and the body checks, then
\* the upsert, one statement.
GrantBegin(p, u, equipmentId, userId, permissionLevel) ==
    LET error ==
          IF ~canManageEquipmentMiddleware(u, equipmentId) THEN "denied"
          ELSE IF userId = Undefined THEN "missing"
          ELSE IF permissionLevel = "manager" /\ ReqUser(u).user_role # "admin"
            THEN "denied"
          ELSE ""
    IN
    /\ SlotFree(p)
    /\ IF error # ""
         THEN /\ last' = PermissionResponse("grant", ErrorCode(error), u, equipmentId,
                                            userId, permissionLevel)
              /\ UNCHANGED proc
         ELSE /\ Goto(p, "grant_write",
                      [user |-> u, equipment_id |-> equipmentId, id |-> userId,
                       permission_level |-> permissionLevel])
              /\ UNCHANGED last
    /\ UNCHANGED <<users, equipment, permissions, reservations, nextId, now, others>>

GrantWrite(p) ==
    LET my == proc[p]
        level == IF my.permission_level = NoValue THEN "normal"
                 ELSE my.permission_level
        violation == \/ ~EquipmentExists(my.equipment_id) \/ ~UserExists(my.id)
                     \/ ~UserExists(my.user)
    IN
    /\ At(p, "grant_write")
    /\ permissions' = IF violation THEN permissions
                       ELSE PermissionGrant(permissions, my.equipment_id, my.id,
                                            ReqUser(my.user).id, level)
    /\ last' = PermissionResponse("grant", IF violation THEN 500 ELSE 200, my.user,
                                  my.equipment_id, my.id, my.permission_level)
    /\ proc' = [proc EXCEPT ![p] = Idle]
    /\ UNCHANGED <<users, equipment, reservations, nextId, now, others>>

\* Permission.updateLevel: the level of the pair's row, if there is one.
\* A permissionLevel missing from the body is sent as NULL.
NullLevel == "<null>"

PermissionUpdateLevel(rows, equipmentId, userId, permissionLevel) ==
    {IF g.equipment_id = equipmentId /\ g.user_id = userId
       THEN [g EXCEPT !.permission_level =
                        IF permissionLevel = NoValue THEN NullLevel ELSE permissionLevel]
       ELSE g : g \in rows}

\* PUT /equipment/:equipmentId/update and PUT /equipment/:equipmentId/user/:userId.
UpdateLevelError(u, equipmentId, userId, permissionLevel) ==
    IF ~canManageEquipmentMiddleware(u, equipmentId) THEN "denied"
    ELSE IF permissionLevel = "manager" /\ ReqUser(u).user_role # "admin" THEN "denied"
    ELSE ""

UpdateLevelReq(u, equipmentId, userId, permissionLevel) ==
    LET error == UpdateLevelError(u, equipmentId, userId, permissionLevel) IN
    /\ NoneInFlight
    /\ permissions' = IF error = ""
                        THEN PermissionUpdateLevel(permissions, equipmentId, userId,
                                                   permissionLevel)
                        ELSE permissions
    /\ last' = PermissionResponse("update_level", ErrorCode(error), u, equipmentId,
                                  userId, permissionLevel)
    /\ UNCHANGED <<users, equipment, reservations, nextId, now, proc, others>>

\* POST /user/:userId/equipment/:equipmentId, the grant of the user view.
UserGrantError(u, userId, equipmentId, permissionLevel) ==
    IF ReqUser(u).user_role # "admin" /\ ~canManageEquipment(equipmentId, ReqUser(u).id)
      THEN "denied"
    ELSE IF ReqUser(u).user_role # "admin" /\ permissionLevel = "manager" THEN "denied"
    ELSE IF ~EquipmentExists(equipmentId) \/ ~UserExists(userId) \/ ~UserExists(u)
      THEN "foreign_key_violation"
    ELSE ""

UserGrantReq(u, userId, equipmentId, permissionLevel) ==
    LET error == UserGrantError(u, userId, equipmentId, permissionLevel)
        level == IF permissionLevel = NoValue THEN "normal" ELSE permissionLevel
    IN
    /\ NoneInFlight
    /\ permissions' = IF error = ""
                        THEN PermissionGrant(permissions, equipmentId, userId,
                                             ReqUser(u).id, level)
                        ELSE permissions
    /\ last' = PermissionResponse("user_grant", ErrorCode(error), u, equipmentId,
                                  userId, permissionLevel)
    /\ UNCHANGED <<users, equipment, reservations, nextId, now, proc, others>>

\* DELETE /user/:userId/equipment/:equipmentId, the revoke of the user view.
UserRevokeReq(u, userId, equipmentId) ==
    LET error == IF ReqUser(u).user_role # "admin"
                      /\ ~canManageEquipment(equipmentId, ReqUser(u).id)
                   THEN "denied" ELSE ""
    IN
    /\ NoneInFlight
    /\ permissions' = IF error = ""
                        THEN PermissionRevoke(permissions, equipmentId, userId)
                        ELSE permissions
    /\ last' = PermissionResponse("user_revoke", ErrorCode(error), u, equipmentId,
                                  userId, NoValue)
    /\ UNCHANGED <<users, equipment, reservations, nextId, now, proc, others>>

\* ------------------------------------------------- equipment routes
MaxEquipment == 2   \* the equipment SERIAL hands out ids 1..MaxEquipment

\* A JSON null in the body, stored as SQL NULL; a NULL manager_id.
NullStatus == "<null>"
NullId == 0
NameInputs == {NoValue, "Sputter"}
EquipmentBodyStatus == {NoValue, NullStatus, "available", "maintenance", "bogus"}

\* CHECK(status IN ('available', 'maintenance')): a CHECK is satisfied when
\* its expression is true or NULL.
EquipmentStatusCheck(status) ==
    status = NullStatus \/ status \in {"available", "maintenance"}

\* Faulty variant of Equipment.create: the default also replaces a null.
EquipmentCreate_DefaultForNull(rows, name, status) ==
    rows @@ ((Cardinality(DOMAIN rows) + 1) :>
               [name |-> name,
                status |-> IF status \in {NoValue, NullStatus} THEN "available"
                           ELSE status,
                manager_id |-> NullId])

\* Equipment.create: the parameter default 'available' replaces an undefined
\* status only; the row gets the next SERIAL id and no manager.
EquipmentCreate(rows, name, status) ==
    rows @@ ((Cardinality(DOMAIN rows) + 1) :>
               [name |-> name,
                status |-> IF status = NoValue THEN "available" ELSE status,
                manager_id |-> NullId])

\* Equipment.update: UPDATE ... SET name, status ... WHERE id.
EquipmentUpdate(rows, id, name, status) ==
    [e \in DOMAIN rows |-> IF e = id THEN [rows[e] EXCEPT !.name = name, !.status = status]
                           ELSE rows[e]]

\* The answer of an equipment route, with the status the body carried.
EquipmentResponse(op, code, u, id, status) ==
    [op |-> op, code |-> code, user |-> u, id |-> id, status |-> status]

\* POST /equipment.
EquipmentCreateReq(u, name, status) ==
    LET id == Cardinality(DOMAIN equipment) + 1
        stored == EquipmentCreate(equipment, name, status)
        error == IF ~isAdmin(u) THEN "denied"
                 ELSE IF name = NoValue THEN "missing"
                 ELSE IF ~EquipmentStatusCheck(stored[id].status) THEN "check_violation"
                 ELSE ""
    IN
    /\ NoneInFlight
    /\ IF error # ""
         THEN /\ last' = EquipmentResponse("equipment_create", ErrorCode(error), u, 0, status)
              /\ UNCHANGED equipment
         ELSE /\ id <= MaxEquipment
              /\ equipment' = stored
              /\ last' = EquipmentResponse("equipment_create", 201, u, id, status)
    /\ UNCHANGED <<users, permissions, reservations, nextId, now, proc, others>>

\* PUT /equipment/:id: a field the body leaves out (or gives as a falsy
\* value) keeps the stored value.
EquipmentUpdateReq(u, id, name, status) ==
    LET newName == IF name = NoValue THEN equipment[id].name ELSE name
        newStatus == IF status \in {NoValue, NullStatus} THEN equipment[id].status
                     ELSE status
        error == IF ~isAdmin(u) THEN "denied"
                 ELSE IF ~EquipmentExists(id) THEN "equipment_not_found"
                 ELSE IF ~EquipmentStatusCheck(newStatus) THEN "check_violation"
                 ELSE ""
    IN
    /\ NoneInFlight
    /\ last' = EquipmentResponse("equipment_update", ErrorCode(error), u, id, status)
    /\ equipment' = IF error # "" THEN equipment
                     ELSE EquipmentUpdate(equipment, id, newName, newStatus)
    /\ UNCHANGED <<users, permissions, reservations, nextId, now, proc, others>>

\* PATCH /equipment/:id/status, served alone.
EquipmentStatusReq(u, id, status) ==
    LET error == EquipmentStatusError(u, id, status) IN
    /\ NoneInFlight
    /\ last' = EquipmentResponse("equipment_status", ErrorCode(error), u, id, status)
    /\ equipment' = IF error # "" THEN equipment
                     ELSE EquipmentUpdateStatus(equipment, id, status)
    /\ UNCHANGED <<users, permissions, reservations, nextId, now, proc, others>>

\* Faulty variant of the DELETE statement: the reservations of the
\* equipment do not hold it back.
EquipmentDeleteViolation_NoForeignKey(id) == FALSE

\* reservations.equipment_id REFERENCES equipment(id) with no ON DELETE
\* action: the DELETE fails while a reservation row names the equipment.
EquipmentDeleteViolation(id) == \E r \in reservations : r.equipment_id = id

\* DELETE /equipment/:id up to the result of Equipment.findById.
EquipmentDeleteBegin(p, u, id) ==
    LET error == IF ~isAdmin(u) THEN "denied"
                 ELSE IF ~EquipmentExists(id) THEN "equipment_not_found"
                 ELSE "" IN
    /\ SlotFree(p)
    /\ IF error # ""
         THEN /\ last' = EquipmentResponse("equipment_delete", ErrorCode(error), u, id,
                                           NoValue)
              /\ UNCHANGED proc
         ELSE /\ Goto(p, "equipment_delete", [user |-> u, id |-> id])
              /\ UNCHANGED last
    /\ UNCHANGED <<users, equipment, permissions, reservations, nextId, now, others>>

\* Equipment.delete: the row goes, and with it (ON DELETE CASCADE) the
\* grants and the usage logs of the equipment.
EquipmentDeleteWrite(p) ==
    LET my == proc[p] IN
    /\ At(p, "equipment_delete")
    /\ proc' = [proc EXCEPT ![p] = Idle]
    /\ IF EquipmentDeleteViolation(my.id)
         THEN /\ last' = EquipmentResponse("equipment_delete", 500, my.user, my.id, NoValue)
              /\ UNCHANGED <<permissions, deletedEquipment, logs>>
         ELSE /\ last' = EquipmentResponse("equipment_delete", 200, my.user, my.id, NoValue)
              /\ deletedEquipment' = deletedEquipment \cup {my.id}
              /\ permissions' = {g \in permissions : g.equipment_id # my.id}
              /\ logs' = {l \in logs : l.equipment_id # my.id}
    /\ UNCHANGED <<users, equipment, reservations, nextId, now, deletedUsers, nextLogId,
                   dbInitialized,
                   initDatabaseRuns>>

\* Permission.getManagedEquipment: the equipment rows joined with the
\* user's manager-level grants, as (equipment id, grant) pairs.
getManagedEquipment(userId) ==
    {<<e, ep>> \in {e \in DOMAIN equipment : EquipmentExists(e)} \X permissions :
        /\ e = ep.equipment_id
        /\ ep.user_id = userId /\ ep.permission_level = "manager"}

\* GET /permissions/my/managed.
ManagedReq(u) ==
    /\ NoneInFlight
    /\ last' = [op |-> "managed", code |-> 200, user |-> u, id |-> 0,
                managed |-> {row[1] : row \in getManagedEquipment(ReqUser(u).id)},
                rows |-> Cardinality(getManagedEquipment(ReqUser(u).id))]
    /\ UNCHANGED <<users, equipment, permissions, reservations, nextId, now, proc, others>>

\* ------------------------------------------------------- usage logs
MaxLogs == 2       \* the equipment_logs SERIAL hands out ids 1..MaxLogs
LogIds == 1..MaxLogs

\* req.body content: missing, blank, or a text.
ContentInputs == {NoValue, " ", "remark", "edited"}
\* !content || content.trim() === ''
ContentEmpty(content) == content \in {NoValue, " "}

\* EquipmentLog.findById.
LogExists(logId) == \E l \in logs : l.id = logId
LogFindById(logId) == CHOOSE l \in logs : l.id = logId

\* EquipmentLog.create, EquipmentLog.update, EquipmentLog.delete.
EquipmentLogCreate(rows, id, equipmentId, userId, content, reservationId) ==
    rows \cup {[id |-> id, equipment_id |-> equipmentId, user_id |-> userId,
                reservation_id |-> reservationId, content |-> content]}
EquipmentLogUpdate(rows, logId, content) ==
    {IF l.id = logId THEN [l EXCEPT !.content = content] ELSE l : l \in rows}
EquipmentLogDelete(rows, logId) == {l \in rows : l.id # logId}

\* The answer of a log route, with the content the body carried.
LogResponse(op, code, u, id, content) ==
    [op |-> op, code |-> code, user |-> u, id |-> id, content |-> content]

\* POST /equipment-logs/equipment/:equipmentId.  The INSERT fails unless
\* the equipment, the user and the reservation (when given) exist.
LogCreateReq(u, equipmentId, content, reservationId) ==
    LET error == IF ContentEmpty(content) THEN "missing"
                 ELSE IF \/ ~EquipmentExists(equipmentId) \/ ~UserExists(ReqUser(u).id)
                         \/ (reservationId # NullId /\ ~ReservationExists(reservationId))
                   THEN "foreign_key_violation"
                 ELSE "" IN
    /\ NoneInFlight
    /\ IF error # ""
         THEN /\ last' = LogResponse("log_create", ErrorCode(error), u, 0, content)
              /\ UNCHANGED <<logs, nextLogId>>
         ELSE /\ nextLogId <= MaxLogs
              /\ logs' = EquipmentLogCreate(logs, nextLogId, equipmentId, ReqUser(u).id,
                                            content, reservationId)
              /\ nextLogId' = nextLogId + 1
              /\ last' = LogResponse("log_create", 201, u, nextLogId, content)
    /\ UNCHANGED <<users, equipment, permissions, reservations, nextId, now, proc,
                   deletedUsers, deletedEquipment, dbInitialized,
                   initDatabaseRuns>>

\* Faulty variant of the author-or-admin test: the legacy role decides.
LogAccessDenied_LegacyRole(u, log) ==
    log.user_id # ReqUser(u).id /\ ReqUser(u).role # "admin"

\* !isAuthor && !isAdmin
LogAccessDenied(u, log) ==
    log.user_id # ReqUser(u).id /\ ReqUser(u).user_role # "admin"

\* PUT /equipment-logs/:logId.
LogUpdateReq(u, logId, content) ==
    LET error == IF ContentEmpty(content) THEN "missing"
                 ELSE IF ~LogExists(logId) THEN "not_found"
                 ELSE IF LogAccessDenied(u, LogFindById(logId)) THEN "denied"
                 ELSE "" IN
    /\ NoneInFlight
    /\ last' = LogResponse("log_update", ErrorCode(error), u, logId, content)
    /\ logs' = IF error # "" THEN logs ELSE EquipmentLogUpdate(logs, logId, content)
    /\ UNCHANGED <<users, equipment, permissions, reservations, nextId, now, proc,
                   deletedUsers, deletedEquipment, nextLogId, dbInitialized,
                   initDatabaseRuns>>

\* DELETE /equipment-logs/:logId.
LogDeleteReq(u, logId) ==
    LET error == IF ~LogExists(logId) THEN "not_found"
                 ELSE IF LogAccessDenied(u, LogFindById(logId)) THEN "denied"
                 ELSE "" IN
    /\ NoneInFlight
    /\ last' = LogResponse("log_delete", ErrorCode(error), u, logId, NoValue)
    /\ logs' = IF error # "" THEN logs ELSE EquipmentLogDelete(logs, logId)
    /\ UNCHANGED <<users, equipment, permissions, reservations, nextId, now, proc,
                   deletedUsers, deletedEquipment, nextLogId, dbInitialized,
                   initDatabaseRuns>>

\* ------------------------------------- the initialisation middleware
\* What initDatabase's migrations do to the rows: an account with legacy
\* role admin and user_role staff becomes user_role admin, then every
\* equipment without a manager gets an admin account (here the one with the
\* lowest id) as manager.
MigratedUsers(rows) ==
    [u \in DOMAIN rows |->
       IF u \notin deletedUsers /\ rows[u].role = "admin" /\ rows[u].user_role = "staff"
         THEN [rows[u] EXCEPT !.user_role = "admin"] ELSE rows[u]]
FirstAdmin(rows) ==
    LET admins == {u \in DOMAIN rows \ deletedUsers : rows[u].user_role = "admin"} IN
    IF admins = {} THEN NullId ELSE CHOOSE u \in admins : \A v \in admins : u <= v
MigratedEquipment(rows, userRows) ==
    [e \in DOMAIN rows |->
       IF e \notin deletedEquipment /\ rows[e].manager_id = NullId
         THEN [rows[e] EXCEPT !.manager_id = FirstAdmin(userRows)] ELSE rows[e]]

\* Faulty variant of the middleware's entry: the flag is set before
\* initDatabase has run.
MiddlewareBegin_FlagFirst(p) ==
    /\ SlotFree(p)
    /\ IF dbInitialized
         THEN /\ last' = Response("request", 200, 0, 0)
              /\ UNCHANGED <<proc, dbInitialized>>
         ELSE /\ dbInitialized' = TRUE
              /\ Goto(p, "init_database", [i |-> 1])
              /\ UNCHANGED last
    /\ UNCHANGED <<users, equipment, permissions, reservations, nextId, now,
                   deletedUsers, deletedEquipment, logs, nextLogId, initDatabaseRuns>>

\* A request enters the middleware: with the flag set it goes on to its
\* route (next()), otherwise the handler awaits initDatabase.
MiddlewareBegin(p) ==
    /\ SlotFree(p)
    /\ IF dbInitialized
         THEN /\ last' = Response("request", 200, 0, 0)
              /\ UNCHANGED proc
         ELSE /\ Goto(p, "init_database", [i |-> 1])
              /\ UNCHANGED last
    /\ UNCHANGED <<users, equipment, permissions, reservations, nextId, now, others>>

\* initDatabase returns or throws; a throw is answered 500 and the flag is
\* left as it is.
InitDatabase(p, throws) ==
    /\ At(p, "init_database")
    /\ IF throws
         THEN /\ Done(p, "request", 500, 0, 0)
              /\ UNCHANGED <<users, equipment, initDatabaseRuns>>
         ELSE /\ users' = MigratedUsers(users)
              /\ equipment' = MigratedEquipment(equipment, MigratedUsers(users))
              /\ initDatabaseRuns' = initDatabaseRuns + 1
              /\ proc' = [proc EXCEPT ![p].pc = "seed_admin"]
              /\ UNCHANGED last
    /\ UNCHANGED <<permissions, reservations, nextId, now, deletedUsers,
                   deletedEquipment, logs, nextLogId, dbInitialized>>

\* autoSeed, User.findByEmail for a seed account: the admin account is the
\* row AdminId, the test user the row TestUserId.
SeedFind(p, pc, id, create, next) ==
    /\ At(p, pc)
    /\ proc' = [proc EXCEPT ![p].pc = IF UserExists(id) THEN next ELSE create]
    /\ UNCHANGED <<users, equipment, permissions, reservations, nextId, now, last, others>>

\* autoSeed, User.create for a seed account: the row gets user_role staff
\* (the default); when the email is taken the INSERT fails and autoSeed's
\* catch ends the seeding.
SeedCreate(p, pc, id, role, next) ==
    /\ At(p, pc)
    /\ IF UserExists(id)
         THEN /\ proc' = [proc EXCEPT ![p].pc = "seeded"]
              /\ UNCHANGED users
         ELSE /\ users' = users @@ (id :> [role |-> role, user_role |-> "staff"])
              /\ proc' = [proc EXCEPT ![p].pc = next]
    /\ UNCHANGED <<equipment, permissions, reservations, nextId, now, last, others>>

SeedFindAdmin(p) == SeedFind(p, "seed_admin", AdminId, "seed_admin_create", "seed_user")
SeedCreateAdmin(p) == SeedCreate(p, "seed_admin_create", AdminId, "admin", "seed_user")
SeedFindUser(p) == SeedFind(p, "seed_user", TestUserId, "seed_user_create", "seed_equipment")
SeedCreateUser(p) ==
    SeedCreate(p, "seed_user_create", TestUserId, "user", "seed_equipment")

\* autoSeed, the SELECT for the first seed equipment by name.
SeedFindEquipment(p) ==
    /\ At(p, "seed_equipment")
    /\ proc' = [proc EXCEPT ![p].pc =
                  IF \E e \in DOMAIN equipment :
                        EquipmentExists(e) /\ equipment[e].name = SeedName(1)
                    THEN "seeded" ELSE "seed_insert"]
    /\ UNCHANGED <<users, equipment, permissions, reservations, nextId, now, last, others>>

\* autoSeed, one Equipment.create of the loop over the seed list.
SeedInsertEquipment(p) ==
    LET my == proc[p] IN
    /\ At(p, "seed_insert")
    /\ Cardinality(DOMAIN equipment) < MaxEquipment
    /\ equipment' = EquipmentCreate(equipment, SeedName(my.i), "available")
    /\ proc' = [proc EXCEPT ![p].i = my.i + 1,
                            ![p].pc = IF my.i = NumEquipment THEN "seeded"
                                      ELSE "seed_insert"]
    /\ UNCHANGED <<users, permissions, reservations, nextId, now, last, others>>

\* autoSeed has returned: the flag is set and the request goes on to its
\* route.
MiddlewareEnd(p) ==
    /\ At(p, "seeded")
    /\ dbInitialized' = TRUE
    /\ Done(p, "request", 200, 0, 0)
    /\ UNCHANGED <<users, equipment, permissions, reservations, nextId, now,
                   deletedUsers, deletedEquipment, logs, nextLogId, initDatabaseRuns>>

\* ------------------------------------------------ DELETE /auth/users/:id
\* POST /equipment-logs/equipment/:equipmentId in two steps: the body
\* check, then the INSERT of EquipmentLog.create.
LogCreateBegin(p, u, equipmentId, content, reservationId) ==
    /\ SlotFree(p)
    /\ IF ContentEmpty(content)
         THEN /\ last' = LogResponse("log_create", ErrorCode("missing"), u, 0, content)
              /\ UNCHANGED proc
         ELSE /\ Goto(p, "log_insert",
                      [user |-> u, equipment_id |-> equipmentId, content |-> content,
                       reservation_id |-> reservationId])
              /\ UNCHANGED last
    /\ UNCHANGED <<users, equipment, permissions, reservations, nextId, now, others>>

LogCreateInsert(p) ==
    LET my == proc[p]
        violation == \/ ~EquipmentExists(my.equipment_id)
                     \/ ~UserExists(ReqUser(my.user).id)
                     \/ (my.reservation_id # NullId
                           /\ ~ReservationExists(my.reservation_id))
    IN
    /\ At(p, "log_insert")
    /\ proc' = [proc EXCEPT ![p] = Idle]
    /\ IF violation
         THEN /\ last' = LogResponse("log_create", 500, my.user, 0, my.content)
              /\ UNCHANGED <<logs, nextLogId>>
         ELSE /\ nextLogId <= MaxLogs
              /\ logs' = EquipmentLogCreate(logs, nextLogId, my.equipment_id,
                                            ReqUser(my.user).id, my.content,
                                            my.reservation_id)
              /\ nextLogId' = nextLogId + 1
              /\ last' = LogResponse("log_create", 201, my.user, nextLogId, my.content)
    /\ UNCHANGED <<users, equipment, permissions, reservations, nextId, now,
                   deletedUsers, deletedEquipment, dbInitialized, initDatabaseRuns>>

\* Faulty variant: the users row goes whatever still names it.
UserDeleteViolation_NoForeignKey(id) == FALSE

\* The columns that reference users(id) with no ON DELETE action:
\* reservations.user_id, equipment_logs.user_id, equipment.manager_id and
\* equipment_permissions.granted_by.  The DELETE of the users row fails
\* while one of them names it.
UserDeleteViolation(id) ==
    \/ \E r \in reservations : r.user_id = id
    \/ \E l \in logs : l.user_id = id
    \/ \E e \in DOMAIN equipment : EquipmentExists(e) /\ equipment[e].manager_id = id
    \/ \E g \in permissions : g.granted_by = id

\* equipment_logs.reservation_id REFERENCES reservations(id) with no ON
\* DELETE action: the DELETE of a user's reservations fails while a usage
\* log names one of them.
ReservationsDeleteViolation(id) ==
    \E r \in reservations, l \in logs : r.user_id = id /\ l.reservation_id = r.id

\* The handler up to its first statement: admin only, and not the caller's
\* own account.
DeleteUserBegin(p, u, id) ==
    LET code == IF ReqUser(u).user_role # "admin" THEN 403
                ELSE IF id = ReqUser(u).id THEN 400
                ELSE 200 IN
    /\ SlotFree(p)
    /\ IF code # 200
         THEN /\ last' = Response("delete_user", code, u, id)
              /\ UNCHANGED proc
         ELSE /\ Goto(p, "delete_user_permissions", [user |-> u, id |-> id])
              /\ UNCHANGED last
    /\ UNCHANGED <<users, equipment, permissions, reservations, nextId, now, others>>

\* DELETE FROM equipment_permissions WHERE user_id = $1
DeleteUserPermissions(p) ==
    LET my == proc[p] IN
    /\ At(p, "delete_user_permissions")
    /\ permissions' = {g \in permissions : g.user_id # my.id}
    /\ proc' = [proc EXCEPT ![p].pc = "delete_user_manager"]
    /\ UNCHANGED <<users, equipment, reservations, nextId, now, last, others>>

\* UPDATE equipment SET manager_id = NULL WHERE manager_id = $1
DeleteUserManager(p) ==
    LET my == proc[p] IN
    /\ At(p, "delete_user_manager")
    /\ equipment' = [e \in DOMAIN equipment |->
                       IF EquipmentExists(e) /\ equipment[e].manager_id = my.id
                         THEN [equipment[e] EXCEPT !.manager_id = NullId]
                         ELSE equipment[e]]
    /\ proc' = [proc EXCEPT ![p].pc = "delete_user_reservations"]
    /\ UNCHANGED <<users, permissions, reservations, nextId, now, last, others>>

\* DELETE FROM reservations WHERE user_id = $1
DeleteUserReservations(p) ==
    LET my == proc[p] IN
    /\ At(p, "delete_user_reservations")
    /\ IF ReservationsDeleteViolation(my.id)
         THEN /\ Done(p, "delete_user", 500, my.user, my.id)
              /\ UNCHANGED reservations
         ELSE /\ reservations' = {r \in reservations : r.user_id # my.id}
              /\ proc' = [proc EXCEPT ![p].pc = "delete_user_logs"]
              /\ UNCHANGED last
    /\ UNCHANGED <<users, equipment, permissions, nextId, now, others>>

\* DELETE FROM equipment_logs WHERE user_id = $1
DeleteUserLogs(p) ==
    LET my == proc[p] IN
    /\ At(p, "delete_user_logs")
    /\ logs' = {l \in logs : l.user_id # my.id}
    /\ proc' = [proc EXCEPT ![p].pc = "delete_user_row"]
    /\ UNCHANGED <<users, equipment, permissions, reservations, nextId, now, last,
                   deletedUsers, deletedEquipment, nextLogId, dbInitialized,
                   initDatabaseRuns>>

\* DELETE FROM users WHERE id = $1: the row goes, and with it (ON DELETE
\* CASCADE) the grants held by the user; the handler answers 200 also when
\* there was no such row.
DeleteUserRow(p) ==
    LET my == proc[p] IN
    /\ At(p, "delete_user_row")
    /\ IF UserExists(my.id) /\ UserDeleteViolation(my.id)
         THEN /\ Done(p, "delete_user", 500, my.user, my.id)
              /\ UNCHANGED <<permissions, deletedUsers>>
         ELSE /\ Done(p, "delete_user", 200, my.user, my.id)
              /\ deletedUsers' = IF my.id \in DOMAIN users
                                   THEN deletedUsers \cup {my.id} ELSE deletedUsers
              /\ permissions' = IF UserExists(my.id)
                                  THEN {g \in permissions : g.user_id # my.id}
                                  ELSE permissions
    /\ UNCHANGED <<users, equipment, reservations, nextId, now, deletedEquipment, logs,
                   nextLogId, dbInitialized, initDatabaseRuns>>

\* --------------------------------------------------- POST /auth/register
validRoles == {"intern", "student", "staff", "equipment_manager", "admin"}

\* The new account gets the next serial id, the legacy flag derived from
\* the submitted role.
RegisterReq(userRole) ==
    LET id == Cardinality(DOMAIN users) + 1 IN
    /\ NoneInFlight
    /\ IF userRole \notin validRoles
         THEN /\ last' = Response("register", 400, 0, 0)
              /\ UNCHANGED users
         ELSE /\ id <= MaxUsers
              /\ users' = users @@ (id :> [role |-> legacyRole(userRole),
                                            user_role |-> userRole])
              /\ last' = Response("register", 201, id, 0)
    /\ UNCHANGED <<equipment, permissions, reservations, nextId, now, proc, others>>

\* ------------------------------------ POST /reservations/check-conflict
CheckConflictError(equipment_id, start_time, end_time) ==
    IF equipment_id = Undefined \/ start_time = Undefined \/ end_time = Undefined
      THEN "missing"
    ELSE IF end_time <= start_time THEN "end_not_after_start"
    ELSE ""

\* The answer carries the request and the hasConflict flag of the body.
CheckConflictReq(u, equipment_id, start_time, end_time, exclude_id) ==
    LET error == CheckConflictError(equipment_id, start_time, end_time) IN
    /\ NoneInFlight
    /\ last' = [op |-> "check", code |-> ErrorCode(error), user |-> u,
                id |-> exclude_id, equipment_id |-> equipment_id,
                start_time |-> start_time, end_time |-> end_time,
                hasConflict |-> IF error # "" THEN FALSE
                                ELSE checkConflict(reservations, equipment_id,
                                                   start_time, end_time, exclude_id)]
    /\ UNCHANGED <<users, equipment, permissions, reservations, nextId, now, proc, others>>

\* --------------------------------------------------- the request loop
Requesters == DOMAIN SeedUsers

Next ==
    \/ Tick
    \/ ResponseSent
    \/ \E u \in Requesters, e \in EquipmentInputs, s \in TimeInputs, t \in TimeInputs :
          CreateReq(u, e, s, t, NoValue)
    \/ \E u \in Requesters, id \in ReservationIds, s \in TimeInputs, t \in TimeInputs,
          p \in PurposeInputs, st \in StatusInputs : UpdateReq(u, id, s, t, p, st)
    \/ \E u \in Requesters, id \in ReservationIds : CancelReq(u, id)
    \/ \E u \in Requesters, id \in ReservationIds : RestoreReq(u, id)
    \/ \E u \in Requesters, id \in ReservationIds : DeleteReq(u, id)

Spec == Init /\ [][Next]_vars

\* -------------------------------------------- interleaved handlers
\* Two handlers at a time.  The staff account books; the admin account
\* updates, cancels and restores.  Updates here carry both timestamps or
\* neither, so that every update that moves a reservation runs the conflict
\* query.
UpdateTimes == {<<s, t>> : s \in Times, t \in Times} \cup {<<Undefined, Undefined>>}

NextConc ==
    \/ ResponseSent
    \/ \E p \in Procs, e \in EquipmentIds, s \in Times, t \in Times :
            CreateBegin(p, TestUserId, e, s, t)
    \/ \E p \in Procs : CreateCheck(p)
    \/ \E p \in Procs : CreatePermission(p)
    \/ \E p \in Procs : CreateInsert(p)
    \/ \E p \in Procs, id \in ReservationIds, st \in UpdateTimes :
            UpdateBegin(p, AdminId, id, st[1], st[2], NoValue)
    \/ \E p \in Procs : UpdateCheck(p)
    \/ \E p \in Procs : UpdateWrite(p)
    \/ \E p \in Procs, id \in ReservationIds : CancelBegin(p, AdminId, id)
    \/ \E p \in Procs : CancelWrite(p)
    \/ \E p \in Procs, id \in ReservationIds : RestoreBegin(p, AdminId, id)
    \/ \E p \in Procs : RestoreCheck(p)
    \/ \E p \in Procs : RestoreWrite(p)

SpecConc == Init /\ [][NextConc]_vars

\* ------------------------------------ creation under changing grants
\* Grants are issued by the seeded accounts (the admin, and the staff account
\* once it is a manager), to any account; any account books.
LevelInputs == {NoValue, "normal", "autonomous", "manager"}
RegisterInputs == {"equipment_manager", "bogus"}

NextPolicy ==
    \/ ResponseSent
    \/ \E userRole \in RegisterInputs : RegisterReq(userRole)
    \/ \E u \in Requesters, e \in EquipmentIds, g \in DOMAIN users, l \in LevelInputs :
            GrantReq(u, e, g, l)
    \/ \E u \in DOMAIN users, e \in EquipmentIds, g \in DOMAIN users :
            RevokeReq(u, e, g)
    \/ \E u \in DOMAIN users, e \in EquipmentIds, s \in Times, t \in Times :
            CreateReq(u, e, s, t, NoValue)

SpecPolicy == Init /\ [][NextPolicy]_vars

\* ------------------------------------------------ interleaved grants
LedgerEquipment == EquipmentIds \cup {UnknownEquipment}

NextGrantConc ==
    \/ ResponseSent
    \/ \E p \in Procs, u \in Requesters, e \in LedgerEquipment, g \in Requesters,
          l \in LevelInputs :
            GrantBegin(p, u, e, g, l)
    \/ \E p \in Procs : GrantWrite(p)

SpecGrantConc == Init /\ [][NextGrantConc]_vars

\* -------------------------------------------- the permission ledger
\* Every account sends every permission request, with any body.  No route
\* tells autonomous from normal, so the bodies carry one of the two.
LedgerLevelInputs == {NoValue, "normal", "manager", "bogus"}

NextLedger ==
    \/ ResponseSent
    \/ \E userRole \in RegisterInputs : RegisterReq(userRole)
    \/ \E u \in DOMAIN users, e \in LedgerEquipment,
          g \in DOMAIN users \cup {Undefined}, l \in LedgerLevelInputs :
            GrantReq(u, e, g, l)
    \/ \E u \in DOMAIN users, e \in EquipmentIds, g \in DOMAIN users,
          l \in LedgerLevelInputs :
            UpdateLevelReq(u, e, g, l)
    \/ \E u \in DOMAIN users, e \in EquipmentIds, g \in DOMAIN users : RevokeReq(u, e, g)
    \/ \E u \in DOMAIN users, e \in EquipmentIds, g \in DOMAIN users,
          l \in LedgerLevelInputs :
            UserGrantReq(u, g, e, l)
    \/ \E u \in DOMAIN users, e \in EquipmentIds, g \in DOMAIN users :
            UserRevokeReq(u, g, e)

SpecLedger == Init /\ [][NextLedger]_vars

\* ------------------------- bookings interleaved with status changes
NextMaint ==
    \/ ResponseSent
    \/ \E p \in Procs, u \in Requesters, e \in EquipmentIds, s \in Times, t \in Times :
            CreateBegin(p, u, e, s, t)
    \/ \E p \in Procs : CreateCheck(p)
    \/ \E p \in Procs : CreatePermission(p)
    \/ \E p \in Procs : CreateInsert(p)
    \/ \E p \in Procs, u \in Requesters, e \in EquipmentIds \cup {UnknownEquipment},
          st \in EquipmentStatusInputs :
            StatusBegin(p, u, e, st)
    \/ \E p \in Procs : StatusWrite(p)

SpecMaint == Init /\ [][NextMaint]_vars

\* ------------------------------ reservations among registered accounts
\* Accounts register with a role; every account books, updates and cancels.
NextOwner ==
    \/ ResponseSent
    \/ \E userRole \in RegisterInputs : RegisterReq(userRole)
    \/ \E u \in DOMAIN users, e \in EquipmentIds, s \in Times, t \in Times :
            CreateReq(u, e, s, t, NoValue)
    \/ \E u \in DOMAIN users, id \in ReservationIds, st \in UpdateTimes :
            UpdateReq(u, id, st[1], st[2], NoValue, NoValue)
    \/ \E u \in DOMAIN users, id \in ReservationIds : CancelReq(u, id)

SpecOwner == Init /\ [][NextOwner]_vars

\* ------------------------------- the conflict check on arbitrary tables
\* Tables of up to MaxRes reservations with end after start, of any status,
\* on NumEquipment + 1 equipment rows, with timestamps 0..MaxCheckTime.
CheckTimes == 0..MaxCheckTime
CheckEquipmentIds == 1..(NumEquipment + 1)
NoShape == [equipment_id |-> 0, start_time |-> 0, end_time |-> 0, status |-> "absent"]
RowShapes ==
    {s \in [equipment_id : CheckEquipmentIds, start_time : CheckTimes,
             end_time : CheckTimes, status : {"pending", "confirmed", "cancelled"}] :
        s.start_time < s.end_time}
TableOf(f) ==
    {[id |-> i, equipment_id |-> f[i].equipment_id, user_id |-> TestUserId,
      start_time |-> f[i].start_time, end_time |-> f[i].end_time,
      purpose |-> "", status |-> f[i].status] : i \in {j \in DOMAIN f : f[j] # NoShape}}

InitCC ==
    /\ users = SeedUsers
    /\ equipment = [e \in CheckEquipmentIds |->
                      [name |-> SeedName(e), status |-> "available",
                       manager_id |-> AdminId]]
    /\ permissions = {}
    /\ \E f \in [ReservationIds -> RowShapes \cup {NoShape}] : reservations = TableOf(f)
    /\ nextId = MaxRes + 1
    /\ now = 0
    /\ last = NoResponse
    /\ proc = [p \in Procs |-> Idle]
    /\ deletedUsers = {}
    /\ deletedEquipment = {}
    /\ logs = {}
    /\ nextLogId = 1
    /\ dbInitialized = TRUE
    /\ initDatabaseRuns = 1

NextCC ==
    \/ ResponseSent
    \/ \E e \in CheckEquipmentIds \cup {Undefined},
          s \in CheckTimes \cup {Undefined}, t \in CheckTimes \cup {Undefined},
          x \in ReservationIds \cup {Undefined} :
            CheckConflictReq(TestUserId, e, s, t, x)

SpecCC == InitCC /\ [][NextCC]_vars

\* --------------------------------- the equipment routes, with bookings
\* Equipment is created, changed and deleted while reservations are
\* created (step by step) and cancelled and grants are made.
AllEquipmentIds == 1..MaxEquipment

NextEquip ==
    \/ ResponseSent
    \/ \E u \in Requesters, name \in NameInputs, status \in EquipmentBodyStatus :
          EquipmentCreateReq(u, name, status)
    \/ \E e \in AllEquipmentIds, status \in EquipmentBodyStatus :
          EquipmentUpdateReq(AdminId, e, NoValue, status)
    \/ \E e \in AllEquipmentIds, status \in EquipmentBodyStatus :
          EquipmentStatusReq(AdminId, e, status)
    \/ \E p \in Procs, u \in Requesters, e \in AllEquipmentIds :
          EquipmentDeleteBegin(p, u, e)
    \/ \E p \in Procs : EquipmentDeleteWrite(p)
    \/ \E p \in Procs, e \in AllEquipmentIds : CreateBegin(p, TestUserId, e, 0, 1)
    \/ \E p \in Procs : CreateCheck(p)
    \/ \E p \in Procs : CreatePermission(p)
    \/ \E p \in Procs : CreateInsert(p)
    \/ \E id \in ReservationIds : CancelReq(AdminId, id)
    \/ \E e \in AllEquipmentIds, l \in {"normal", "manager"} :
          GrantReq(AdminId, e, TestUserId, l)
    \/ \E u \in Requesters : ManagedReq(u)

SpecEquip == Init /\ [][NextEquip]_vars

\* ------------------------------------------- the usage-log routes
\* Accounts register, and any account writes, edits and deletes log entries.
NextLog ==
    \/ ResponseSent
    \/ \E userRole \in RegisterInputs : RegisterReq(userRole)
    \/ \E u \in DOMAIN users, e \in EquipmentIds \cup {UnknownEquipment},
          content \in ContentInputs : LogCreateReq(u, e, content, NullId)
    \/ \E u \in DOMAIN users, id \in LogIds, content \in ContentInputs :
          LogUpdateReq(u, id, content)
    \/ \E u \in DOMAIN users, id \in LogIds : LogDeleteReq(u, id)

SpecLog == Init /\ [][NextLog]_vars

\* ------------------------------- creation, the clock and maintenance
\* Reservations are created and cancelled while the clock advances and the
\* admin switches equipment between available and maintenance.
NextOrder ==
    \/ Tick
    \/ ResponseSent
    \/ \E u \in Requesters, e \in EquipmentInputs, s \in TimeInputs, t \in TimeInputs :
          CreateReq(u, e, s, t, NoValue)
    \/ \E id \in ReservationIds : CancelReq(AdminId, id)
    \/ \E e \in EquipmentIds, status \in {"available", "maintenance"} :
          EquipmentStatusReq(AdminId, e, status)

SpecOrder == Init /\ [][NextOrder]_vars

\* -------------------------------------------------- a cold instance
\* A new instance starts with its flag unset, on a database that is empty,
\* or seeded, or seeded with the first seed equipment renamed since.
NoRows == [u \in {} |-> 0]
RenamedEquipment ==
    [e \in EquipmentIds |-> [SeedEquipment[e] EXCEPT !.name = "Sputter"]]

InitBoot ==
    /\ \E db \in {<<NoRows, NoRows>>, <<SeedUsers, SeedEquipment>>,
                   <<SeedUsers, RenamedEquipment>>} :
          users = db[1] /\ equipment = db[2]
    /\ permissions = {}
    /\ reservations = {}
    /\ nextId = 1
    /\ now = 0
    /\ last = NoResponse
    /\ proc = [p \in Procs |-> Idle]
    /\ deletedUsers = {}
    /\ deletedEquipment = {}
    /\ logs = {}
    /\ nextLogId = 1
    /\ dbInitialized = FALSE
    /\ initDatabaseRuns = 0

NextBoot ==
    \/ ResponseSent
    \/ \E p \in Procs : MiddlewareBegin(p)
    \/ \E p \in Procs, throws \in BOOLEAN : InitDatabase(p, throws)
    \/ \E p \in Procs : SeedFindAdmin(p)
    \/ \E p \in Procs : SeedCreateAdmin(p)
    \/ \E p \in Procs : SeedFindUser(p)
    \/ \E p \in Procs : SeedCreateUser(p)
    \/ \E p \in Procs : SeedFindEquipment(p)
    \/ \E p \in Procs : SeedInsertEquipment(p)
    \/ \E p \in Procs : MiddlewareEnd(p)

SpecBoot == InitBoot /\ [][NextBoot]_vars

\* User deletion among the requests of the users themselves.  The second
\* account is a staff member or a second admin (registration accepts the
\* admin role), and the equipment's manager is one of the admins.
InitDeleteUser ==
    /\ \E role \in {"staff", "admin"} :
         /\ users = [SeedUsers EXCEPT ![TestUserId] =
                       [role |-> legacyRole(role), user_role |-> role]]
         /\ \E m \in {AdminId} \cup (IF role = "admin" THEN {TestUserId} ELSE {}) :
              equipment = [e \in EquipmentIds |->
                             [SeedEquipment[e] EXCEPT !.manager_id = m]]
    /\ permissions = {}
    /\ reservations = {}
    /\ nextId = 1
    /\ now = 0
    /\ last = NoResponse
    /\ proc = [p \in Procs |-> Idle]
    /\ deletedUsers = {}
    /\ deletedEquipment = {}
    /\ logs = {}
    /\ nextLogId = 1
    /\ dbInitialized = TRUE
    /\ initDatabaseRuns = 1

NextDeleteUser ==
    \/ ResponseSent
    \/ \E p \in Procs, id \in Requesters : DeleteUserBegin(p, AdminId, id)
    \/ \E p \in Procs : DeleteUserPermissions(p)
    \/ \E p \in Procs : DeleteUserManager(p)
    \/ \E p \in Procs : DeleteUserReservations(p)
    \/ \E p \in Procs : DeleteUserLogs(p)
    \/ \E p \in Procs : DeleteUserRow(p)
    \/ \E p \in Procs : CreateBegin(p, TestUserId, 1, 0, 1)
    \/ \E p \in Procs : CreateCheck(p)
    \/ \E p \in Procs : CreatePermission(p)
    \/ \E p \in Procs : CreateInsert(p)
    \/ \E p \in Procs, userId \in Requesters :
          GrantBegin(p, TestUserId, 1, userId, "normal")
    \/ \E p \in Procs : GrantWrite(p)
    \/ \E p \in Procs, r \in {NullId, 1} :
          LogCreateBegin(p, TestUserId, 1, "remark", r)
    \/ \E p \in Procs : LogCreateInsert(p)

SpecDeleteUser == InitDeleteUser /\ [][NextDeleteUser]_vars

\* ------------------------------------------------------------- claims
\* The claims' overlap relation on two rows: A.start < B.end and A.end > B.start.
Overlap(a, b) == a.start_time < b.end_time /\ a.end_time > b.start_time
Active(r) == r.status # "cancelled"
\* Another active reservation of the same equipment.
Rival(r, q) == q.id # r.id /\ q.equipment_id = r.equipment_id /\ Active(q)

\* C1: for every equipment, no two distinct stored reservations that are not
\* cancelled overlap, after any sequence of create / update / cancel /
\* restore / delete requests served one at a time.
C1_NoOverlap ==
    \A a \in reservations, b \in reservations :
        (Active(a) /\ Rival(a, b)) => ~Overlap(a, b)

\* C2: with handlers interleaved at their queries, no two distinct
\* reservations of one equipment that are not cancelled overlap: of any two,
\* one ends no later than the other starts.
C2_NoOverlapInterleaved ==
    \A a \in reservations : \A b \in reservations :
        (a.id < b.id /\ a.equipment_id = b.equipment_id
           /\ a.status # "cancelled" /\ b.status # "cancelled")
          => (a.end_time <= b.start_time \/ b.end_time <= a.start_time)

\* C3: for stored reservations with end after start and a candidate [S, E)
\* with E > S, checkConflict answers true exactly when some stored
\* reservation of that equipment, not cancelled and not the excluded one,
\* has start < E and end > S.
C3_CheckConflictIsHalfOpenOverlap ==
    (last.op = "check" /\ last.code = 200) =>
        (last.hasConflict <=>
            \E r \in reservations :
                /\ r.equipment_id = last.equipment_id
                /\ r.status # "cancelled"
                /\ r.id # last.id
                /\ r.start_time < last.end_time
                /\ r.end_time > last.start_time)

\* A check has answered "free" for an interval that starts where an active
\* reservation of the equipment ends.
C3_Witness ==
    /\ last.op = "check" /\ last.code = 200 /\ ~last.hasConflict
    /\ \E r \in reservations :
         /\ r.equipment_id = last.equipment_id /\ Active(r)
         /\ r.id # last.id /\ r.end_time = last.start_time

\* C4: a creation that succeeds stores status confirmed exactly when the
\* requester's role is admin or the requester holds a grant for that
\* equipment of level autonomous or manager; otherwise it stores pending.
C4_StatusPolicy ==
    (last.op = "create" /\ last.code = 201) =>
        LET r == ReservationFindById(last.id)
            privileged ==
                \/ users[last.user].user_role = "admin"
                \/ \E g \in permissions :
                     /\ g.equipment_id = r.equipment_id /\ g.user_id = last.user
                     /\ g.permission_level \in {"autonomous", "manager"}
        IN  /\ r.user_id = last.user
            /\ r.status = IF privileged THEN "confirmed" ELSE "pending"

\* A non-admin holder of an autonomous grant has just created a reservation
\* that is confirmed at once.
C4_Witness ==
    /\ last.op = "create" /\ last.code = 201
    /\ users[last.user].user_role # "admin"
    /\ \E g \in permissions :
         /\ g.user_id = last.user /\ g.permission_level = "autonomous"
         /\ g.equipment_id = ReservationFindById(last.id).equipment_id
    /\ ReservationFindById(last.id).status = "confirmed"

\* The row a response names, in the current table.
Named == ReservationFindById(last.id)
IsAdminUser(u) == users[u].user_role = "admin"
Admins == {u \in DOMAIN users : IsAdminUser(u)}

\* C5: a pending reservation blocks its slot for everyone and adjacency is
\* free.  On available equipment whose only reservation r is the pending
\* one of a non-admin without a grant, an admin's creation of an interval
\* overlapping r is answered 409 and one starting at r's end is admitted as
\* confirmed; and no admitted creation overlaps an active reservation.
SolePending(r) ==
    /\ r.status = "pending"
    /\ r.start_time < r.end_time
    /\ ~IsAdminUser(r.user_id)
    /\ hasPermission(r.equipment_id, r.user_id) = {}
    /\ equipment[r.equipment_id].status = "available"
    /\ \A q \in reservations : q.equipment_id = r.equipment_id => q = r

C5_PendingBlocksAdjacencyFree ==
    /\ \A r \in reservations : SolePending(r) =>
         \A a \in Admins, s \in Times, e \in Times : (s >= now /\ e > s) =>
            /\ Overlap([start_time |-> s, end_time |-> e], r)
                 => CreateError(r.equipment_id, s, e) = "conflict"
            /\ s = r.end_time
                 => /\ CreateError(r.equipment_id, s, e) = ""
                    /\ initialStatus(a, r.equipment_id) = "confirmed"
    /\ (last.op = "create" /\ last.code = 201) =>
         /\ ReservationExists(last.id)
         /\ \A q \in reservations : Rival(Named, q) => ~Overlap(Named, q)
         /\ IsAdminUser(last.user) => Named.status = "confirmed"

\* The admin has just been admitted, confirmed, right after the end of a
\* non-admin's pending reservation on the same equipment.
C5_Witness ==
    /\ last.op = "create" /\ last.code = 201 /\ IsAdminUser(last.user)
    /\ Named.status = "confirmed"
    /\ \E r \in reservations :
         /\ r.status = "pending" /\ ~IsAdminUser(r.user_id)
         /\ r.equipment_id = Named.equipment_id
         /\ r.start_time < r.end_time /\ Named.start_time = r.end_time

\* C6: a cancelled reservation never takes part in a conflict check: right
\* after a cancel the row is cancelled, and for every cancelled row c every
\* check gives what it gives on the table without c.
C6_CancelledExcluded ==
    /\ (last.op = "cancel" /\ last.code = 200) =>
         ReservationExists(last.id) /\ Named.status = "cancelled"
    /\ \A c \in reservations : c.status = "cancelled" =>
         \A q \in EquipmentIds, s \in Times, e \in Times,
            x \in ReservationIds \cup {Undefined} :
              checkConflict(reservations, q, s, e, x)
                = checkConflict(reservations \ {c}, q, s, e, x)

\* A cancel has just freed a slot that only the cancelled row occupied.
C6_Witness ==
    /\ last.op = "cancel" /\ last.code = 200
    /\ Named.start_time < Named.end_time
    /\ checkConflict({[Named EXCEPT !.status = "confirmed"]}, Named.equipment_id,
                     Named.start_time, Named.end_time, Undefined)
    /\ CreateError(Named.equipment_id, Named.start_time, Named.end_time) = ""

\* C7: restore is legal only from cancelled; it answers 409 and changes
\* nothing when the row's interval overlaps another active reservation of
\* the equipment, and it only flips the status to confirmed, the rest of
\* the table untouched, when it finds no such overlap.
C7_Restore ==
    [][(last = NoResponse /\ last'.op = "restore") =>
         LET id == last'.id
             r == ReservationFindById(id)
             blocked == \E q \in reservations : Rival(r, q) /\ Overlap(r, q)
         IN /\ last'.code = 200 =>
                 /\ ReservationExists(id) /\ r.status = "cancelled" /\ ~blocked
                 /\ reservations' =
                      (reservations \ {r}) \cup {[r EXCEPT !.status = "confirmed"]}
            /\ last'.code # 200 => reservations' = reservations
            /\ (ReservationExists(id) /\ r.status = "cancelled" /\ blocked
                  /\ isAdmin(last'.user)) => last'.code = 409
            /\ (ReservationExists(id) /\ r.status # "cancelled"
                  /\ isAdmin(last'.user)) => last'.code = 400
       ]_vars

\* A restore has just been refused: the slot of the cancelled row is taken.
C7_Witness ==
    /\ last.op = "restore" /\ last.code = 409
    /\ Named.status = "cancelled"
    /\ \E q \in reservations : Rival(Named, q) /\ Overlap(Named, q)

\* C8: every update that changes the start or the end of a reservation is
\* checked: it is not admitted when the resulting interval overlaps another
\* active reservation of the same equipment.
C8_UpdateRevalidates ==
    [][(last = NoResponse /\ last'.op = "update" /\ last'.code = 200) =>
         LET old == ReservationFindById(last'.id)
             new == CHOOSE r \in reservations' : r.id = last'.id
         IN (new.start_time # old.start_time \/ new.end_time # old.end_time) =>
              \A q \in reservations' : Rival(new, q) => ~Overlap(new, q)
       ]_vars

\* C9: a reservation's status only changes along pending -> confirmed,
\* pending -> cancelled, confirmed -> cancelled and, through restore only,
\* cancelled -> confirmed.
C9_StatusTransitions ==
    [][\A r \in reservations : \A n \in reservations' :
         (n.id = r.id /\ n.status # r.status) =>
            \/ r.status = "pending" /\ n.status \in {"confirmed", "cancelled"}
            \/ r.status = "confirmed" /\ n.status = "cancelled"
            \/ r.status = "cancelled" /\ n.status = "confirmed" /\ last'.op = "restore"
       ]_vars


\* C10: a pending reservation becomes confirmed only by a request of an
\* admin or of a manager of its equipment.
C10_ApprovalOnlyByAdminOrManager ==
    [][\A r \in reservations : \A n \in reservations' :
         (n.id = r.id /\ r.status = "pending" /\ n.status = "confirmed") =>
            \/ IsAdminUser(last'.user)
            \/ canManageEquipment(r.equipment_id, last'.user)
       ]_vars

\* C11: every stored reservation ends strictly after it starts.
C11_EndAfterStart ==
    \A r \in reservations : r.start_time < r.end_time

\* C12: an update or a cancel of an existing reservation by a user who is
\* neither its creator nor an admin is answered 403 and changes nothing.
C12_OnlyOwnerOrAdminMutates ==
    [][(last = NoResponse /\ last'.op \in {"update", "cancel"}
          /\ ReservationExists(last'.id)
          /\ ReservationFindById(last'.id).user_id # last'.user
          /\ ~IsAdminUser(last'.user))
         => (last'.code = 403 /\ reservations' = reservations)
       ]_vars

\* C13: a create request that is rejected changes no table; one that is
\* admitted adds exactly the row its response names.
C13_RejectedCreateNoEffect ==
    [][(last = NoResponse /\ last'.op = "create") =>
         IF last'.code = 201
           THEN /\ \E r \in reservations' :
                     /\ r.id = last'.id /\ r \notin reservations
                     /\ reservations' = reservations \cup {r}
                /\ UNCHANGED <<users, equipment, permissions>>
           ELSE UNCHANGED <<users, equipment, permissions, reservations, nextId>>
       ]_vars

\* A creation has just been refused for a conflict, the table not empty.
C13_Witness ==
    /\ last.op = "create" /\ last.code = 409
    /\ reservations # {}

\* C14: a reservation is only ever inserted for an equipment whose status
\* is available when the row is inserted.
C14_MaintenanceBlocksInsert ==
    [][\A r \in reservations' \ reservations :
         equipment[r.equipment_id].status = "available"
       ]_vars

\* C15: there is at most one grant row per (equipment, user) pair, and when
\* a grant has just been answered 200 the pair's row holds that grant's
\* level and granter, whatever row the pair had before.
C15_GrantUpsert ==
    /\ \A a \in permissions : \A b \in permissions :
         (a.equipment_id = b.equipment_id /\ a.user_id = b.user_id) => a = b
    /\ (last.op = "grant" /\ last.code = 200) =>
         [equipment_id |-> last.equipment_id, user_id |-> last.id,
          granted_by |-> last.user,
          permission_level |-> IF last.permission_level = NoValue THEN "normal"
                               ELSE last.permission_level] \in permissions

\* The staff account, made manager by the admin, has just overwritten its
\* own manager grant with a normal one.
C15_Witness ==
    /\ last.op = "grant" /\ last.code = 200
    /\ last.user = TestUserId /\ last.id = TestUserId
    /\ \E g \in permissions :
         /\ g.user_id = TestUserId /\ g.granted_by = TestUserId
         /\ g.permission_level = "normal"

\* The permission requests, and who manages an equipment: the holder of a
\* manager-level grant on it, or the equipment_manager account the
\* equipment row names as its manager.
LedgerOps == {"grant", "update_level", "user_grant", "revoke", "user_revoke"}
LedgerStep == last = NoResponse /\ last'.op \in LedgerOps
Manages(u, e) ==
    \/ canManageEquipment(e, u)
    \/ /\ users[u].user_role = "equipment_manager"
       /\ EquipmentExists(e)
       /\ equipment[e].manager_id = u

\* C16: a grant's level becomes manager only by a request of an admin; a
\* request for level manager by anyone else is rejected and changes no grant.
C16_ManagerLevelOnlyByAdmin ==
    [][LedgerStep =>
         /\ \A g \in permissions' :
              (/\ g.permission_level = "manager"
               /\ ~\E h \in permissions :
                     /\ h.equipment_id = g.equipment_id /\ h.user_id = g.user_id
                     /\ h.permission_level = "manager")
                => IsAdminUser(last'.user)
         /\ (last'.permission_level = "manager" /\ ~IsAdminUser(last'.user))
              => (last'.code # 200 /\ permissions' = permissions)
       ]_vars

\* A manager of the equipment who is no admin has just been refused a
\* manager-level grant.
C16_Witness ==
    /\ last.op \in {"grant", "update_level", "user_grant"}
    /\ last.permission_level = "manager" /\ last.code = 403
    /\ ~IsAdminUser(last.user)
    /\ canManageEquipment(last.equipment_id, last.user)

\* C17: no request of a non-admin removes, overwrites or changes a
\* manager-level grant.
C17_ManagerGrantsKeptFromNonAdmins ==
    [][(LedgerStep /\ ~IsAdminUser(last'.user)) =>
         \A g \in permissions : g.permission_level = "manager" => g \in permissions'
       ]_vars

\* C18: every stored grant has level normal, autonomous or manager.
C18_LevelsValid ==
    \A g \in permissions : g.permission_level \in {"normal", "autonomous", "manager"}

\* C19: the grants of an equipment change only by requests of admins and
\* of its managers; a permission request for an equipment by anyone else
\* is answered 403 and changes no grant.
C19_LedgerOnlyByAdminOrManager ==
    [][LedgerStep =>
         /\ \A g \in (permissions \ permissions') \cup (permissions' \ permissions) :
              IsAdminUser(last'.user) \/ Manages(last'.user, g.equipment_id)
         /\ (~IsAdminUser(last'.user) /\ ~Manages(last'.user, last'.equipment_id))
              => (last'.code = 403 /\ permissions' = permissions)
       ]_vars

\* An account that is no admin and manages nothing has just been refused a
\* request on an equipment that has grants.
C19_Witness ==
    /\ last.op \in LedgerOps /\ last.code = 403
    /\ ~IsAdminUser(last.user) /\ ~Manages(last.user, last.equipment_id)
    /\ \E g \in permissions : g.equipment_id = last.equipment_id

\* C20: a revoke that is let through answers 200 whether or not the pair
\* has a grant, and leaves exactly the grants of the other pairs.
C20_Revoke ==
    [][(last = NoResponse /\ last'.op \in {"revoke", "user_revoke"}) =>
         /\ (IsAdminUser(last'.user) \/ canManageEquipment(last'.equipment_id, last'.user))
              => last'.code = 200
         /\ last'.code = 200 =>
              permissions' = {g \in permissions :
                                ~(g.equipment_id = last'.equipment_id
                                    /\ g.user_id = last'.id)}
         /\ last'.code # 200 => permissions' = permissions
       ]_vars

\* A revoke has just succeeded and the grants of other accounts remain.
C20_Witness ==
    /\ last.op \in {"revoke", "user_revoke"} /\ last.code = 200
    /\ \E g \in permissions : g.equipment_id = last.equipment_id /\ g.user_id # last.id

\* The equipment rows that exist, and whether the pair has a grant of
\* level manager.
ExistingEquipment == {e \in DOMAIN equipment : EquipmentExists(e)}
ManagerGrant(e, u) ==
    \E g \in permissions :
        g.equipment_id = e /\ g.user_id = u /\ g.permission_level = "manager"

\* C21: canManageEquipment is true exactly for the pairs with a grant of
\* level manager, and getManagedEquipment returns exactly the existing
\* equipment the user can manage, one row each.
C21_ManagedEquipment ==
    /\ \A e \in AllEquipmentIds, u \in DOMAIN users :
         canManageEquipment(e, u) <=> ManagerGrant(e, u)
    /\ \A u \in DOMAIN users :
         {row[1] : row \in getManagedEquipment(u)}
           = {e \in ExistingEquipment : canManageEquipment(e, u)}
    /\ last.op = "managed" =>
         /\ last.managed = {e \in ExistingEquipment : ManagerGrant(e, last.user)}
         /\ last.rows = Cardinality(last.managed)

\* The list of managed equipment has just been answered, not empty, to a
\* user who also holds a grant of level normal.
C21_Witness ==
    /\ last.op = "managed" /\ last.managed # {}
    /\ \E g \in permissions : g.user_id = last.user /\ g.permission_level = "normal"

\* C22: every equipment row has status available or maintenance.
C22_EquipmentStatusValid ==
    \A e \in ExistingEquipment : equipment[e].status \in {"available", "maintenance"}

\* C23: every reservation names an existing equipment row, and a delete of
\* an equipment that a reservation names fails and leaves the row.
C23_EquipmentKeptWhileReserved ==
    /\ [](\A r \in reservations : EquipmentExists(r.equipment_id))
    /\ [][(/\ last = NoResponse /\ last'.op = "equipment_delete"
           /\ \E r \in reservations : r.equipment_id = last'.id)
            => (last'.code # 200 /\ deletedEquipment' = deletedEquipment)]_vars

\* A delete of an equipment whose only reservations are cancelled has just
\* failed.
C23_Witness ==
    /\ last.op = "equipment_delete" /\ last.code = 500
    /\ EquipmentExists(last.id)
    /\ \E r \in reservations : r.equipment_id = last.id
    /\ \A r \in reservations : r.equipment_id = last.id => r.status = "cancelled"

\* C24: an update or delete of a log entry by an account that is neither
\* its author nor an admin is answered 403 (an update with blank content
\* 400) and changes no entry; an entry changes or goes only by a request
\* of its author or of an admin.
C24_LogOnlyByAuthorOrAdmin ==
    [][(/\ last = NoResponse /\ last'.op \in {"log_update", "log_delete"}
        /\ LogExists(last'.id)
        /\ LogFindById(last'.id).user_id # last'.user
        /\ ~IsAdminUser(last'.user))
         => /\ logs' = logs
            /\ last'.code = IF last'.op = "log_update" /\ ContentEmpty(last'.content)
                              THEN 400 ELSE 403
       ]_vars

\* An equipment_manager account, whose legacy role is admin, has just been
\* refused the edit of another account's entry.
C24_Witness ==
    /\ last.op = "log_update" /\ last.code = 403
    /\ users[last.user].user_role = "equipment_manager"
    /\ LogExists(last.id) /\ LogFindById(last.id).user_id # last.user

\* A stored reservation that is not cancelled overlaps the interval.
Taken(e, s, t) ==
    \E r \in reservations :
        /\ r.equipment_id = e /\ Active(r)
        /\ Overlap(r, [start_time |-> s, end_time |-> t])

\* C25: a create request is answered with the first rule it breaks, in the
\* order past start, end not after start, equipment not available,
\* conflict; while every equipment is in maintenance no create is answered
\* 409.
C25_RejectionOrder ==
    /\ [](\A e \in EquipmentIds \cup {UnknownEquipment}, s \in Times, t \in Times :
            LET error == CreateError(e, s, t)
                timesValid == s >= now /\ t > s
                available == EquipmentExists(e) /\ equipment[e].status = "available"
            IN
            /\ s < now => error = "past"
            /\ (s >= now /\ t <= s) => error = "end_not_after_start"
            /\ (timesValid /\ EquipmentExists(e) /\ ~available) => error = "not_available"
            /\ (timesValid /\ available /\ Taken(e, s, t)) => error = "conflict"
            /\ error = "conflict" => (timesValid /\ available /\ Taken(e, s, t)))
    /\ [][(/\ last = NoResponse /\ last'.op = "create"
           /\ \A e \in ExistingEquipment : equipment[e].status = "maintenance")
            => (last'.code # 409 /\ reservations' = reservations)]_vars

\* A create has just been answered 400 while the equipment is in
\* maintenance and holds a reservation that starts before the current time:
\* requests that break several rules at once exist.
C25_Witness ==
    /\ last.op = "create" /\ last.code = 400
    /\ \E r \in reservations :
         /\ Active(r) /\ r.start_time < now
         /\ equipment[r.equipment_id].status = "maintenance"

\* C26: a create whose start is earlier than the clock is rejected and a
\* created row never starts before the clock; an admin's update to an
\* interval that ends after it starts and meets no other reservation, and
\* an admin's restore onto a free slot, are admitted whatever the clock says.
C26_PastCheckedOnCreateOnly ==
    /\ [](\A e \in EquipmentInputs, s \in Times, t \in TimeInputs :
            s < now => CreateError(e, s, t) # "")
    /\ [][(last = NoResponse /\ last'.op = "create" /\ last'.code = 201)
            => \E r \in reservations' \ reservations :
                  r.id = last'.id /\ r.start_time >= now]_vars
    /\ [](\A r \in reservations :
            /\ \A s \in Times, t \in Times :
                 (s < t /\ ~checkConflict(reservations, r.equipment_id, s, t, r.id))
                   => UpdateError(AdminId, r.id, s, t, NoValue) = ""
            /\ (/\ r.status = "cancelled"
                /\ ~checkConflict(reservations, r.equipment_id, r.start_time,
                                  r.end_time, r.id))
                 => RestoreError(AdminId, r.id) = "")

\* A restore has just succeeded for a reservation whose interval is over.
C26_Witness ==
    /\ last.op = "restore" /\ last.code = 200
    /\ ReservationExists(last.id) /\ Named.end_time <= now

\* C27: an update that carries no status leaves a cancelled reservation
\* cancelled, also when it read the row before the cancel was written.
C27_CancelNotUndoneByUpdate ==
    [][(/\ last = NoResponse /\ last'.op = "update" /\ last'.code = 200
        /\ \E r \in reservations : r.id = last'.id /\ r.status = "cancelled")
         => \E r \in reservations' : r.id = last'.id /\ r.status = "cancelled"]_vars

\* C28: a request goes on to its route only when the flag is set, and the
\* flag is set only after a call of initDatabase has returned on the
\* instance; a request whose initDatabase throws is answered 500 and
\* leaves the flag as it was, and while the flag is unset every request
\* that comes in calls initDatabase.
C28_InitBeforeRoutes ==
    /\ []((last.op = "request" /\ last.code = 200) => dbInitialized)
    /\ [](dbInitialized => initDatabaseRuns >= 1)
    /\ [][(last = NoResponse /\ last'.op = "request" /\ last'.code = 500)
            => (dbInitialized' = dbInitialized
                  /\ initDatabaseRuns' = initDatabaseRuns)]_vars
    /\ [][\A p \in Procs :
            (proc[p] = Idle /\ proc'[p] # Idle /\ ~dbInitialized)
              => proc'[p].pc = "init_database"]_vars

\* initDatabase has just thrown on an instance that has not been
\* initialised: the request is answered 500 and the flag is unset.
C28_Witness ==
    /\ last.op = "request" /\ last.code = 500
    /\ ~dbInitialized /\ initDatabaseRuns = 0

\* C29: an instance completes initDatabase at most once, and no seed
\* equipment is stored twice.
C29_InitAndSeedOnce ==
    /\ initDatabaseRuns <= 1
    /\ \A i \in EquipmentIds :
         Cardinality({e \in ExistingEquipment : equipment[e].name = SeedName(i)}) <= 1

\* The rows that name user U: grants held or given, reservations, usage
\* logs, and equipment managed.
References(U) ==
    \/ \E g \in permissions : g.user_id = U \/ g.granted_by = U
    \/ \E r \in reservations : r.user_id = U
    \/ \E l \in logs : l.user_id = U
    \/ \E e \in ExistingEquipment : equipment[e].manager_id = U

Tables == <<users, equipment, permissions, reservations, logs, deletedUsers>>

\* C30: no row names a deleted user, whatever the user's own requests did
\* between the deletion's statements; a users row goes only with a delete
\* request answered 200 that named it and came from another account; and a
\* request to delete one's own account is answered 400 and changes no table.
C30_DeleteUser ==
    /\ [](\A U \in deletedUsers : ~References(U))
    /\ [][\A U \in DOMAIN users :
            (U \notin deletedUsers /\ U \in deletedUsers')
              => (last'.op = "delete_user" /\ last'.code = 200
                    /\ last'.id = U /\ last'.user # U)]_vars
    /\ [][(last = NoResponse /\ last'.op = "delete_user" /\ last'.user = last'.id)
            => (last'.code \in {400, 403} /\ Tables' = Tables)]_vars
    /\ [][(last = NoResponse /\ last'.op = "delete_user" /\ last'.code = 200)
            => (last'.id \notin DOMAIN users' \/ last'.id \in deletedUsers')]_vars

\* A deletion of the second account has just been answered 200 while a
\* request of that account is waiting for its INSERT.
C30_Witness ==
    /\ last.op = "delete_user" /\ last.code = 200 /\ last.id = TestUserId
    /\ TestUserId \in deletedUsers
    /\ \E p \in Procs : /\ proc[p] # Idle /\ proc[p].user = TestUserId
                        /\ proc[p].pc \in {"create_insert", "log_insert", "grant_write"}

====
